---------------------------- MODULE Spec2Model ----------------------------
(***************************************************************************)
(* A model of the OW-ChCCA KEM of MingLLuo/OW-ChCCA-KEM: the big-integer   *)
(* vectors and matrices over Z_q with their length-prefixed binary         *)
(* encoding (pkg/arithmetic), seed expansion, key generation,              *)
(* encapsulation, decapsulation and the ciphertext and key wire formats    *)
(* (pkg), and the nil-checking facade functions (owchcca.go).              *)
(*                                                                         *)
(* Byte strings are sequences over 0..255, a big.Int is an integer, a      *)
(* *Vector is a record [Values, Modulus] and a Matrix a record             *)
(* [Rows, Cols, Values, Modulus].  An error is a record [kind, msg]: kind  *)
(* is the sentinel that errors.Is finds in the %w chain, msg the text      *)
(* that tells one return statement from another.                           *)
(***************************************************************************)
EXTENDS Integers, Sequences, FiniteSets, TLC

VARIABLES
    params,     \* the Parameters value every operation of the run is bound to
    pk,         \* *PublicKey returned by GenerateKeyPair (NilPK before)
    sk,         \* *PrivateKey returned by GenerateKeyPair (NilSK before)
    genErr,     \* error returned by GenerateKeyPair
    pkBytes,    \* result of pk.Bytes()  [data, err]
    skBytes,    \* result of sk.Bytes()  [data, err]
    parsedPk,   \* result of ParsePublicKey   [key, err]
    parsedSk,   \* result of ParsePrivateKey  [key, err]
    enc,        \* result of Encapsulate  [ct, ss, err] with the seed r drawn
    wire,       \* the ciphertext bytes the caller hands to Decapsulate
    edit,       \* how the caller derived wire from the ciphertext
    dec,        \* result of Decapsulate [ss, err] with what it computed
    phase,      \* "load" before init() ran, "init" after it, "changed" once a caller wrote
    registry,   \* globalRegistry: [paramSets, defaultSet]
    mu,         \* globalRegistry.mu: [w |-> the goroutine holding Lock (0: none), r |-> those holding RLock]
    calls,      \* per goroutine: the registry call it is in and where
    unit        \* one call of a pure function: [op, in, out]

kemVars == <<params, pk, sk, genErr, pkBytes, skBytes, parsedPk, parsedSk,
             enc, wire, edit, dec>>

regVars == <<phase, registry, mu, calls>>

vars == <<kemVars, regVars, unit>>

-----------------------------------------------------------------------------
(* Bounds of the exploration.                                              *)

\* key material is drawn from the sample matrices numbered 0..MaxKeySeed
MaxKeySeed == 1
\* the encapsulation seed r is drawn from MaxSeed+1 byte strings
MaxSeed == 1
\* the caller appends 1..MaxExtra bytes to a ciphertext
MaxExtra == 1
\* the caller removes 1..MaxCut bytes from the end of a ciphertext
MaxCut == 2
\* goroutines that call the registry concurrently
NProcs == 2
\* registry calls one goroutine makes
MaxCalls == 2
\* the seeds handed to expandSeed on its own are numbered 0..MaxUnitSeed
MaxUnitSeed == 3
\* calls of one direction made on one prime generator
MaxPrimeCalls == 9
\* vector and matrix operations applied one after the other
MaxOps == 3
MaxRegistryCalls == 3

-----------------------------------------------------------------------------
(* Bytes and big integers.                                                 *)

Byte == 0..255

Pow2(k) == 2^k

Min(a, b) == IF a < b THEN a ELSE b

\* a Go slice holds its elements: the sequence f is built once, element by
\* element, and not on every read
MakeSlice(f) == SubSeq(f, 1, Len(f))

\* a ^ b on bytes (Go's ^ on uint8)
XorByte(a, b) ==
    LET bit(k) == (((a \div Pow2(k)) + (b \div Pow2(k))) % 2) * Pow2(k)
    IN  bit(0) + bit(1) + bit(2) + bit(3) + bit(4) + bit(5) + bit(6) + bit(7)

\* the loops "for i := range c { c[i] = a[i] ^ b[i] }" over len(a) bytes
XorBytes(a, b) == MakeSlice([i \in 1..Len(a) |-> XorByte(a[i], b[i])])

\* big.Int.BitLen
RECURSIVE BitLen(_)
BitLen(x) == IF x = 0 THEN 0 ELSE 1 + BitLen(x \div 2)

\* big.Int.Bytes: the minimal big-endian byte string (empty for 0)
RECURSIVE BigBytes(_)
BigBytes(x) == IF x = 0 THEN <<>> ELSE Append(BigBytes(x \div 256), x % 256)

\* big.Int.SetBytes: a big-endian byte string as an unsigned integer
RECURSIVE SetBytes(_)
SetBytes(bs) ==
    IF bs = <<>> THEN 0
    ELSE 256 * SetBytes(SubSeq(bs, 1, Len(bs) - 1)) + bs[Len(bs)]

\* binary.BigEndian.PutUint32
PutUint32(v) == << (v \div 16777216) % 256, (v \div 65536) % 256,
                   (v \div 256) % 256, v % 256 >>

\* bytes.Buffer.Write of one slice after another
Concat3(a, b, c) == a \o b \o c

-----------------------------------------------------------------------------
(* math/big beyond the width of the model's integers.  A big.Int that may  *)
(* exceed 31 bits is a sequence of limbs in base 2^15, least significant   *)
(* first, without leading zero limbs: 0 is <<>>.                           *)

LimbBase == 32768

RECURSIVE BigFromInt(_)
BigFromInt(x) ==
    IF x = 0 THEN <<>> ELSE <<x % LimbBase>> \o BigFromInt(x \div LimbBase)

\* drop the zero limbs at the top
RECURSIVE BigNorm(_)
BigNorm(a) ==
    IF a = <<>> THEN <<>>
    ELSE IF a[Len(a)] = 0 THEN BigNorm(SubSeq(a, 1, Len(a) - 1))
    ELSE a

\* the limb i of a, 0 above its length
Limb(a, i) == IF i <= Len(a) THEN a[i] ELSE 0

\* big.Int.Cmp: -1, 0 or 1, decided at the highest limb that differs
RECURSIVE CmpFrom(_, _, _)
CmpFrom(a, b, i) ==
    IF i = 0 THEN 0
    ELSE IF a[i] < b[i] THEN -1
    ELSE IF a[i] > b[i] THEN 1
    ELSE CmpFrom(a, b, i - 1)

BigCmp(a, b) ==
    IF Len(a) < Len(b) THEN -1
    ELSE IF Len(a) > Len(b) THEN 1
    ELSE CmpFrom(a, b, Len(a))

\* big.Int.Add, limb by limb with a carry
RECURSIVE AddFrom(_, _, _, _)
AddFrom(a, b, i, carry) ==
    IF i > Len(a) /\ i > Len(b)
    THEN (IF carry = 0 THEN <<>> ELSE <<carry>>)
    ELSE LET t == Limb(a, i) + Limb(b, i) + carry
         IN  <<t % LimbBase>> \o AddFrom(a, b, i + 1, t \div LimbBase)

BigAdd(a, b) == AddFrom(a, b, 1, 0)

\* big.Int.Sub for a >= b, limb by limb with a borrow
RECURSIVE SubFrom(_, _, _, _)
SubFrom(a, b, i, borrow) ==
    IF i > Len(a) THEN <<>>
    ELSE LET t == a[i] - Limb(b, i) - borrow
         IN  IF t < 0 THEN <<t + LimbBase>> \o SubFrom(a, b, i + 1, 1)
             ELSE <<t>> \o SubFrom(a, b, i + 1, 0)

BigSub(a, b) == BigNorm(SubFrom(a, b, 1, 0))

\* a * k for one limb k
RECURSIVE MulSmallFrom(_, _, _, _)
MulSmallFrom(a, k, i, carry) ==
    IF i > Len(a) THEN (IF carry = 0 THEN <<>> ELSE <<carry>>)
    ELSE LET t == a[i] * k + carry
         IN  <<t % LimbBase>> \o MulSmallFrom(a, k, i + 1, t \div LimbBase)

BigMulSmall(a, k) == IF k = 0 THEN <<>> ELSE MulSmallFrom(a, k, 1, 0)

\* a * LimbBase^k
BigShiftLimbs(a, k) == IF a = <<>> THEN <<>> ELSE [i \in 1..k |-> 0] \o a

\* big.Int.Mul, one limb of b at a time
RECURSIVE MulFrom(_, _, _)
MulFrom(a, b, i) ==
    IF i > Len(b) THEN <<>>
    ELSE BigAdd(BigShiftLimbs(BigMulSmall(a, b[i]), i - 1), MulFrom(a, b, i + 1))

BigMul(a, b) == MulFrom(a, b, 1)

\* big.Int.Lsh(1, k)
BigPow2(k) == [i \in 1..(k \div 15) |-> 0] \o <<2^(k % 15)>>

\* big.Int.BitLen
BigBitLen(a) == IF a = <<>> THEN 0 ELSE 15 * (Len(a) - 1) + BitLen(a[Len(a)])

\* big.Int.Bit(i), i counted from 0
BigBit(a, i) == (Limb(a, (i \div 15) + 1) \div 2^(i % 15)) % 2

\* a \div 2^s as an integer, for an a of at most 30 bits more than s
RECURSIVE TopFrom(_, _, _, _)
TopFrom(a, w, t, i) ==
    IF i > Len(a) THEN 0
    ELSE IF i = w + 1 THEN (a[i] \div 2^t) + TopFrom(a, w, t, i + 1)
    ELSE a[i] * 2^(15 * (i - w - 1) - t) + TopFrom(a, w, t, i + 1)

BigTop(a, s) == TopFrom(a, s \div 15, s % 15, (s \div 15) + 1)

\* v mod n for 0 <= v < n * 2^16: a multiple of n that an estimate of the
\* quotient from the leading 14 bits of n never makes too large is taken
\* away until less than n is left
RECURSIVE ReduceBy(_, _, _, _)
ReduceBy(v, n, s, ntop) ==
    IF BigCmp(v, n) < 0 THEN v
    ELSE LET est == BigTop(v, s) \div (ntop + 1)
             qhat == IF est = 0 THEN 1 ELSE est
         IN  ReduceBy(BigSub(v, BigMulSmall(n, qhat)), n, s, ntop)

Reduce(v, n) ==
    LET s == IF BigBitLen(n) > 14 THEN BigBitLen(n) - 14 ELSE 0
    IN  ReduceBy(v, n, s, BigTop(n, s))

\* big.Int.Mod(a, n) for n > 0: limb by limb from the top of a
RECURSIVE ModFrom(_, _, _, _)
ModFrom(a, n, i, r) ==
    IF i = 0 \/ (r = <<>> /\ a[i] = 0 /\ i = 1) THEN r
    ELSE ModFrom(a, n, i - 1,
                 Reduce(BigAdd(BigShiftLimbs(r, 1), BigFromInt(a[i])), n))

BigMod(a, n) == IF BigCmp(a, n) < 0 THEN a ELSE ModFrom(a, n, Len(a), <<>>)

\* a mod k for an integer k of at most 16 bits
RECURSIVE ModSmallFrom(_, _, _, _)
ModSmallFrom(a, k, i, r) ==
    IF i = 0 THEN r ELSE ModSmallFrom(a, k, i - 1, (r * LimbBase + a[i]) % k)

BigModSmall(a, k) == ModSmallFrom(a, k, Len(a), 0)

\* a * b mod n for a, b < n: one limb of b at a time from the top
RECURSIVE MulModFrom(_, _, _, _, _)
MulModFrom(a, b, n, i, acc) ==
    IF i = 0 \/ (acc = <<>> /\ a = <<>>) THEN acc
    ELSE MulModFrom(a, b, n, i - 1,
                    Reduce(BigAdd(BigShiftLimbs(acc, 1), BigMulSmall(a, b[i])), n))

BigMulMod(a, b, n) == MulModFrom(a, b, n, Len(b), <<>>)

\* one bit of the square-and-multiply ladder: acc^2 (times a if bit i of e is
\* set) mod n; bits below lo are not part of the exponent
ExpBit(a, e, n, i, lo, acc) ==
    IF i < lo \/ acc = <<>> THEN acc
    ELSE IF BigBit(e, i) = 1
    THEN BigMulMod(BigMulMod(acc, acc, n), a, n)
    ELSE BigMulMod(acc, acc, n)

\* a^(e >> lo) mod n from bit i of e downward, four bits to a step
RECURSIVE ExpFrom(_, _, _, _, _, _)
ExpFrom(a, e, n, i, lo, acc) ==
    IF i < lo \/ acc = <<>> THEN acc
    ELSE ExpFrom(a, e, n, i - 4, lo,
                 ExpBit(a, e, n, i - 3, lo,
                     ExpBit(a, e, n, i - 2, lo,
                         ExpBit(a, e, n, i - 1, lo,
                             ExpBit(a, e, n, i, lo, acc)))))

\* the number of zero bits at the low end of a > 0
RECURSIVE TrailingZeros(_, _)
TrailingZeros(a, i) == IF BigBit(a, i) = 1 THEN i ELSE TrailingZeros(a, i + 1)

\* the primes below 40: trial divisors, and the bases for which the
\* Miller-Rabin test decides primality of every n below 3.18 * 10^23
SmallPrimes == <<2, 3, 5, 7, 11, 13, 17, 19, 23, 29, 31, 37>>

\* x, x^2, x^4, ... mod n reaches n - 1 within the given number of squarings
RECURSIVE ReachesMinusOne(_, _, _, _)
ReachesMinusOne(x, n, n1, left) ==
    IF x = n1 THEN TRUE
    ELSE IF left = 0 THEN FALSE
    ELSE ReachesMinusOne(BigMulMod(x, x, n), n, n1, left - 1)

\* n (odd, above 37) passes the Miller-Rabin test to the base a
StrongProbablePrime(n, a) ==
    LET n1 == BigSub(n, <<1>>)
        s == TrailingZeros(n1, 0)
        x == ExpFrom(BigFromInt(a), n1, n, BigBitLen(n1) - 1, s, <<1>>)
    IN  x = <<1>> \/ ReachesMinusOne(x, n, n1, s - 1)

\* big.Int.ProbablyPrime(20), which is exact for inputs below 2^64
ProbablyPrime(n) ==
    IF BigCmp(n, <<2>>) < 0 THEN FALSE
    ELSE IF \E k \in 1..Len(SmallPrimes) : n = <<SmallPrimes[k]>> THEN TRUE
    ELSE IF \E k \in 1..Len(SmallPrimes) : BigModSmall(n, SmallPrimes[k]) = 0 THEN FALSE
    ELSE \A k \in 1..Len(SmallPrimes) : StrongProbablePrime(n, SmallPrimes[k])

-----------------------------------------------------------------------------
(* Errors.                                                                 *)

NoErr == [kind |-> "nil", msg |-> ""]

Err(kind, msg) == [kind |-> kind, msg |-> msg]

\* fmt.Errorf("<text>: %w", err): errors.Is still finds err's sentinel
Wrap(text, err) == [kind |-> err.kind, msg |-> text]

\* the sentinels of pkg (part_004 18-28) and of pkg/arithmetic (part_005 16-25)
ErrInvalidPublicKey == Err("InvalidPublicKey", "")
ErrInvalidPrivateKey == Err("InvalidPrivateKey", "")
ErrDecapsulationFailed == Err("DecapsulationFailed", "")
ErrParameterValidation == Err("ParameterValidation", "")
ErrInvalidDimensions == Err("InvalidDimensions", "")

\* a run-time panic of the Go program (a nil dereference, an index out of range)
Panic(msg) == Err("panic", msg)

-----------------------------------------------------------------------------
(* pkg/arithmetic: vectors and matrices over Z_q.                          *)

\* a nil *Vector
NilVector == [Values |-> <<>>, Modulus |-> 0]

NewVector(length, modulus) ==
    [Values |-> MakeSlice([i \in 1..length |-> 0]), Modulus |-> modulus]

NewMatrix(rows, cols, modulus) ==
    [Rows |-> rows, Cols |-> cols,
     Values |-> MakeSlice([i \in 1..rows |-> MakeSlice([j \in 1..cols |-> 0])]),
     Modulus |-> modulus]

VecLength(v) == Len(v.Values)

\* Vector.Set, index counted from 0 as in the code
VecSet(v, index, value) ==
    [v EXCEPT !.Values[index + 1] = value % v.Modulus]

VecEqual(v, other) ==
    /\ VecLength(v) = VecLength(other)
    /\ \A i \in 1..VecLength(v) : v.Values[i] = other.Values[i]

VecAdd(v, other) ==
    IF VecLength(v) # VecLength(other)
    THEN [val |-> NilVector, err |-> ErrInvalidDimensions]
    ELSE [val |-> [Values |-> MakeSlice([i \in 1..VecLength(v) |->
                                (v.Values[i] + other.Values[i]) % v.Modulus]),
                   Modulus |-> v.Modulus],
          err |-> NoErr]

\* a subtraction that leaves the difference as it is
VecSubtractUnreduced(v, other) ==
    IF VecLength(v) # VecLength(other)
    THEN [val |-> NilVector, err |-> ErrInvalidDimensions]
    ELSE [val |-> [Values |-> MakeSlice([i \in 1..VecLength(v) |->
                                v.Values[i] - other.Values[i]]),
                   Modulus |-> v.Modulus],
          err |-> NoErr]

VecSubtract(v, other) ==
    IF VecLength(v) # VecLength(other)
    THEN [val |-> NilVector, err |-> ErrInvalidDimensions]
    ELSE [val |-> [Values |-> MakeSlice([i \in 1..VecLength(v) |->
                                (v.Values[i] - other.Values[i]) % v.Modulus]),
                   Modulus |-> v.Modulus],
          err |-> NoErr]

VecScalarMultiply(v, scalar) ==
    [Values |-> MakeSlice([i \in 1..VecLength(v) |->
                             (v.Values[i] * scalar) % v.Modulus]),
     Modulus |-> v.Modulus]

\* the loop of Vector.Sum over the first k values
RECURSIVE SumUpTo(_, _, _)
SumUpTo(vals, q, k) ==
    IF k = 0 THEN 0
    ELSE LET sum == SumUpTo(vals, q, k - 1)
         IN  (sum + vals[k]) % q

VecSum(v) == SumUpTo(v.Values, v.Modulus, VecLength(v))

\* the inner loop of Matrix.MultiplyVector over the first k columns
RECURSIVE RowTimes(_, _, _, _)
RowTimes(row, vals, q, k) ==
    IF k = 0 THEN 0
    ELSE LET sum == RowTimes(row, vals, q, k - 1)
             product == (row[k] * vals[k]) % q
         IN  (sum + product) % q

MatEqual(m, other) ==
    /\ m.Rows = other.Rows
    /\ m.Cols = other.Cols
    /\ \A i \in 1..m.Rows : \A j \in 1..m.Cols :
           m.Values[i][j] = other.Values[i][j]

MatTranspose(m) ==
    [Rows |-> m.Cols, Cols |-> m.Rows,
     Values |-> MakeSlice([j \in 1..m.Cols |->
                    MakeSlice([i \in 1..m.Rows |-> m.Values[i][j]])]),
     Modulus |-> m.Modulus]

MatMultiplyVector(m, v) ==
    IF m.Cols # VecLength(v)
    THEN [val |-> NilVector, err |-> ErrInvalidDimensions]
    ELSE [val |-> [Values |-> MakeSlice([i \in 1..m.Rows |->
                        RowTimes(m.Values[i], v.Values, m.Modulus, m.Cols)]),
                   Modulus |-> m.Modulus],
          err |-> NoErr]

\* Vector.DotProduct: the loop over the first k values, as RowTimes
VecDotProduct(v, other) ==
    IF VecLength(v) # VecLength(other)
    THEN [val |-> 0, err |-> ErrInvalidDimensions]
    ELSE [val |-> RowTimes(v.Values, other.Values, v.Modulus, VecLength(v)),
          err |-> NoErr]

\* Matrix.Set, row and col counted from 0
MatSet(m, row, col, value) ==
    [m EXCEPT !.Values[row + 1][col + 1] = value % m.Modulus]

\* the column j of a matrix
MatColumn(m, j) == MakeSlice([k \in 1..m.Rows |-> m.Values[k][j]])

MatMultiply(m, other) ==
    IF m.Cols # other.Rows
    THEN [val |-> NewMatrix(0, 0, 0), err |-> ErrInvalidDimensions]
    ELSE [val |-> [Rows |-> m.Rows, Cols |-> other.Cols,
                   Values |-> MakeSlice([i \in 1..m.Rows |->
                       MakeSlice([j \in 1..other.Cols |->
                           RowTimes(m.Values[i], MatColumn(other, j),
                                    m.Modulus, m.Cols)])]),
                   Modulus |-> m.Modulus],
          err |-> NoErr]

\* an element size rounded down
ElementSizeRoundedDown(modulus) == BitLen(modulus) \div 8

\* elementSize := (Modulus.BitLen() + 7) / 8
ElementSize(modulus) == (BitLen(modulus) + 7) \div 8

\* a faulty variant of PaddedElement: val.Bytes() copied to the front of the
\* element and the zero bytes behind it
PaddedElementLeftAligned(val, elementSize) ==
    LET valBytes == BigBytes(val)
    IN  MakeSlice([i \in 1..elementSize |->
                     IF i <= Len(valBytes) THEN valBytes[i] ELSE 0])

\* one element as the code writes it: val.Bytes() copied behind
\* elementSize - len(val.Bytes()) zero bytes
PaddedElement(val, elementSize) ==
    LET valBytes == BigBytes(val)
        padding == elementSize - Len(valBytes)
    IN  MakeSlice([i \in 1..elementSize |->
                     IF i <= padding THEN 0 ELSE valBytes[i - padding]])

\* does some element need more than elementSize bytes (padding < 0)
ElementTooLarge(vals, elementSize) ==
    \E i \in 1..Len(vals) : Len(BigBytes(vals[i])) > elementSize

VecEncodedSize(v) == 4 + VecLength(v) * ElementSize(v.Modulus)

VecMarshalBinary(v) ==
    LET elementSize == ElementSize(v.Modulus)
        totalSize == 4 + VecLength(v) * elementSize
        head == PutUint32(VecLength(v))
    IN  IF ElementTooLarge(v.Values, elementSize)
        THEN [data |-> <<>>, err |-> Err("Serialization", "element too large")]
        ELSE [data |-> MakeSlice([k \in 1..totalSize |->
                          IF k <= 4 THEN head[k]
                          ELSE PaddedElement(v.Values[((k - 5) \div elementSize) + 1],
                                             elementSize)[((k - 5) % elementSize) + 1]]),
              err |-> NoErr]

\* int(binary.BigEndian.Uint32(b)).  A value of 2^24 or more is kept as 2^24:
\* every buffer of the model is far shorter, so each comparison of the code
\* that reads it comes out as it does for the exact value.
Uint32(b) == IF b[1] # 0 THEN 16777216 ELSE b[2] * 65536 + b[3] * 256 + b[4]

\* Vector.UnmarshalBinary on a receiver v
VecUnmarshalBinary(v, data) ==
    IF Len(data) < 4
    THEN [val |-> v, err |-> Err("Deserialization", "data too short")]
    ELSE
      LET length == Uint32(SubSeq(data, 1, 4))
          elementSize == ElementSize(v.Modulus)
      IN  IF Len(data) < 4 + length * elementSize
          THEN [val |-> v,
                err |-> Err("Deserialization", "data too short for specified length")]
          ELSE [val |-> [Values |-> MakeSlice([i \in 1..length |->
                            SetBytes(SubSeq(data, 4 + (i - 1) * elementSize + 1,
                                            4 + i * elementSize)) % v.Modulus]),
                         Modulus |-> v.Modulus],
                err |-> NoErr]

MatEncodedSize(m) == 8 + m.Rows * m.Cols * ElementSize(m.Modulus)

MatMarshalBinary(m) ==
    LET elementSize == ElementSize(m.Modulus)
        totalSize == 8 + m.Rows * m.Cols * elementSize
        rowsHead == PutUint32(m.Rows)
        colsHead == PutUint32(m.Cols)
    IN  IF \E i \in 1..m.Rows : ElementTooLarge(m.Values[i], elementSize)
        THEN [data |-> <<>>, err |-> Err("Serialization", "element too large")]
        ELSE [data |-> MakeSlice([k \in 1..totalSize |->
                  IF k <= 4 THEN rowsHead[k]
                  ELSE IF k <= 8 THEN colsHead[k - 4]
                  ELSE LET index == (k - 9) \div elementSize
                       IN  PaddedElement(
                               m.Values[(index \div m.Cols) + 1][(index % m.Cols) + 1],
                               elementSize)[((k - 9) % elementSize) + 1]]),
              err |-> NoErr]

\* Matrix.UnmarshalBinary on a receiver m
MatUnmarshalBinary(m, data) ==
    IF Len(data) < 8
    THEN [val |-> m, err |-> Err("Deserialization", "data too short")]
    ELSE
      LET rows == Uint32(SubSeq(data, 1, 4))
          cols == Uint32(SubSeq(data, 5, 8))
          elementSize == ElementSize(m.Modulus)
          \* 8 + rows*cols*elementSize, not multiplied out once a factor alone
          \* exceeds the buffer
          needed == IF rows = 0 \/ cols = 0 THEN 8
                    ELSE IF rows > Len(data) \/ cols > Len(data) THEN Len(data) + 1
                    ELSE 8 + rows * cols * elementSize
      IN  IF Len(data) < needed
          THEN [val |-> m,
                err |-> Err("Deserialization", "data too short for specified dimensions")]
          ELSE [val |-> [Rows |-> rows, Cols |-> cols,
                         Values |-> MakeSlice([i \in 1..rows |-> MakeSlice([j \in 1..cols |->
                             SetBytes(SubSeq(data,
                                 8 + ((i - 1) * cols + (j - 1)) * elementSize + 1,
                                 8 + ((i - 1) * cols + j) * elementSize)) % m.Modulus])]),
                         Modulus |-> m.Modulus],
                err |-> NoErr]

\* rand on a reader that holds the bytes of stream from position pos
\* (counted from 0) on: numBytes bytes are read, the top bit of the first is
\* cleared, and the value is returned unless it is not below the modulus
RECURSIVE rand(_, _, _)
rand(stream, pos, modulus) ==
    LET numBytes == (BitLen(modulus) + 7) \div 8
    IN  IF pos + numBytes > Len(stream)
        THEN [val |-> 0, pos |-> Len(stream), err |-> Err("unclassified", "EOF")]
        ELSE LET buf == SubSeq(stream, pos + 1, pos + numBytes)
                 val == SetBytes([buf EXCEPT ![1] = @ % 128])
             IN  IF val < modulus
                 THEN [val |-> val, pos |-> pos + numBytes, err |-> NoErr]
                 ELSE rand(stream, pos + numBytes, modulus)

\* count calls of rand, one after the other on one reader
RECURSIVE RandValues(_, _, _, _)
RandValues(stream, pos, modulus, count) ==
    IF count = 0 THEN [vals |-> <<>>, err |-> NoErr]
    ELSE LET r == rand(stream, pos, modulus)
         IN  IF r.err # NoErr
             THEN [vals |-> <<>>,
                   err |-> Wrap("failed to generate random value", r.err)]
             ELSE LET rest == RandValues(stream, r.pos, modulus, count - 1)
                  IN  [vals |-> <<r.val>> \o rest.vals, err |-> rest.err]

GenerateRandomVector(length, modulus, stream) ==
    LET r == RandValues(stream, 0, modulus, length)
    IN  IF r.err # NoErr THEN [val |-> NilVector, err |-> r.err]
        ELSE [val |-> [Values |-> r.vals, Modulus |-> modulus], err |-> NoErr]

GenerateRandomMatrix(rows, cols, modulus, stream) ==
    LET r == RandValues(stream, 0, modulus, rows * cols)
    IN  IF r.err # NoErr THEN [val |-> NewMatrix(0, 0, 0), err |-> r.err]
        ELSE [val |-> [Rows |-> rows, Cols |-> cols,
                       Values |-> MakeSlice([i \in 1..rows |->
                           MakeSlice([j \in 1..cols |-> r.vals[(i - 1) * cols + j]])]),
                       Modulus |-> modulus],
              err |-> NoErr]

-----------------------------------------------------------------------------
(* pkg/sha3: the hash primitives.  The package is not among the sources;   *)
(* it is modelled as the specification describes it: a fixed-output hash   *)
(* and an absorb-and-squeeze primitive that yields any number of bytes,    *)
(* both deterministic functions of the absorbed bytes.                     *)

\* output bytes of SHA3-256
Sha3DigestSize == 32

\* the states of the sponge
SpongeStates == 0..65520

\* the state after absorbing the bytes data[lo..hi] into a state st0, one byte
\* after the other.  The range is taken half by half, and the state between
\* the halves is looked at before the second half starts, which keeps the
\* evaluation of a long input flat.
RECURSIVE SpongeAbsorb(_, _, _, _)
SpongeAbsorb(st0, data, lo, hi) ==
    IF lo > hi THEN st0
    ELSE IF lo = hi THEN (st0 * 131 + data[lo] + 1) % 65521
    ELSE LET mid == (lo + hi) \div 2
             left == SpongeAbsorb(st0, data, lo, mid)
         IN  IF left \in SpongeStates
             THEN SpongeAbsorb(left, data, mid + 1, hi)
             ELSE left

\* the k-th byte squeezed from state st
SpongeSqueeze(st, k) ==
    LET t == (st + 251 * k + 17) % 46337
    IN  ((t * t) % 65521) % 256

\* sha3.New256(); Write(data); Sum(nil)
Sha3Sum256(data) ==
    LET st == SpongeAbsorb(256, data, 1, Len(data))
    IN  MakeSlice([k \in 1..Sha3DigestSize |-> SpongeSqueeze(st, k)])

\* sha3.New512(); Write(data); Read(out) with len(out) = size
Sha3Read512(data, size) ==
    LET st == SpongeAbsorb(512, data, 1, Len(data))
    IN  MakeSlice([k \in 1..size |-> SpongeSqueeze(st, k)])

-----------------------------------------------------------------------------
(* Parameters (pkg/params.go).                                             *)

\* Gaussian widths are kept in hundredths (Alpha = 200 is alpha = 2.00), and
\* so is AlphaPrime, which is a big integer.  The modulus *big.Int is QBig; the
\* scaled parameter sets of the KEM runs also carry it as the integer Q.

\* (modulus.BitLen() + 7) / 8 for a modulus of any width
BigElementSize(q) == (BigBitLen(q) + 7) \div 8

PublicKeySize(p) ==
    LET elementSize == BigElementSize(p.QBig)
        aSize == 8 + p.N * p.M * elementSize
        uSize == 8 + p.N * p.SecurityLevel * elementSize
    IN  aSize + uSize * 2

PrivateKeySize(p) ==
    LET elementSize == BigElementSize(p.QBig)
        zbSize == 8 + p.M * p.SecurityLevel * elementSize
        pkSize == PublicKeySize(p)
    IN  zbSize + 1 + pkSize

CiphertextSize(p) ==
    LET elementSize == BigElementSize(p.QBig)
        cbSize == p.SecurityLevel \div 8
        xSize == 4 + p.M * elementSize
        hatHbSize == p.SecurityLevel \div 8
    IN  2 * cbSize + xSize + 2 * hatHbSize

SharedKeySize(p) == p.SecurityLevel \div 8

\* math.Sqrt(float64(n)) in hundredths, rounded down
Sqrt100(n) == CHOOSE r \in 0..10000 : r * r <= 10000 * n /\ (r + 1) * (r + 1) > 10000 * n

\* math.Pow(float64(n), 2.5) * float64(m) in hundredths, with sqrt(n) taken
\* to two decimals
AlphaPrimeOf(n, m) ==
    BigMul(BigMul(BigFromInt(n * n), BigFromInt(Sqrt100(n))), BigFromInt(m))

\* the Parameters value CalculateParameters builds (lines 228-262) once it has
\* n, m, logQ and q: k = lambda, alpha = gamma = eta = sqrt(n), alphaPrime =
\* n^2.5 * m, and the four sizes from the methods above
BuildParameters(name, lambda, n, m, logQ, q, logEta) ==
    LET base == [SecurityLevel |-> lambda, N |-> n, M |-> m, QBig |-> q]
    IN  [Name |-> name, SecurityLevel |-> lambda,
         N |-> n, M |-> m, Lambda |-> lambda, LogQ |-> logQ, QBig |-> q, K |-> lambda,
         Alpha |-> Sqrt100(n), Gamma |-> Sqrt100(n), Eta |-> Sqrt100(n),
         AlphaPrime |-> AlphaPrimeOf(n, m), LogEta |-> logEta,
         KeyPublicKeySize |-> PublicKeySize(base),
         KeyPrivateKeySize |-> PrivateKeySize(base),
         KeyCiphertextSize |-> CiphertextSize(base),
         KeySharedKeySize |-> SharedKeySize(base)]

\* a nil *big.Int, which is not the integer 0 (written <<>>)
NilInt == <<-1>>

\* Parameters{}: every field zero, the modulus nil
EmptyParameters ==
    [Name |-> "", SecurityLevel |-> 0, N |-> 0, M |-> 0, Lambda |-> 0, LogQ |-> 0,
     QBig |-> NilInt, K |-> 0, Alpha |-> 0, Gamma |-> 0, Eta |-> 0, AlphaPrime |-> <<>>,
     LogEta |-> 0, KeyPublicKeySize |-> 0, KeyPrivateKeySize |-> 0,
     KeyCiphertextSize |-> 0, KeySharedKeySize |-> 0]

IsPowerOfTwo(x) == \E k \in 0..30 : x = Pow2(k)

IsPrime(x) == x >= 2 /\ \A d \in 2..(x - 1) : d * d > x \/ x % d # 0

\* ring.NewRing(m, {q}) succeeds: the degree is a power of two of at least 16
\* and q is a prime with q = 1 mod 2m
RingConstructible(m, q) ==
    /\ m >= 16
    /\ IsPowerOfTwo(m)
    /\ IsPrime(q)
    /\ q % (2 * m) = 1

\* the same for a modulus of any width
BigRingConstructible(m, q) ==
    /\ m >= 16
    /\ IsPowerOfTwo(m)
    /\ BigMod(q, BigFromInt(2 * m)) = <<1>>
    /\ ProbablyPrime(q)

\* Parameters.Validate; abs(a - sqrt(n)) <= 0.01 is compared in squares,
\* abs(alphaPrime - e)/e <= 0.05 with e = n^2.5*m likewise
ApproxSqrt(a100, n) ==
    /\ (a100 + 1) * (a100 + 1) >= 10000 * n
    /\ (a100 <= 1 \/ (a100 - 1) * (a100 - 1) <= 10000 * n)

\* abs(alphaPrime - e)/e > 0.05 for e = n^2.5 * m:
\* (100 alphaPrime)^2 lies outside [0.95^2, 1.05^2] * 10^4 * n^5 * m^2
AlphaPrimeOff(alphaPrime, n, m) ==
    LET n2 == BigFromInt(n * n)
        e2 == BigMulSmall(BigMul(BigMul(BigMul(n2, n2), BigFromInt(n)),
                                 BigMul(BigFromInt(m), BigFromInt(m))), 10000)
        a2 == BigMulSmall(BigMul(alphaPrime, alphaPrime), 400)
    IN  \/ BigCmp(a2, BigMulSmall(e2, 441)) > 0
        \/ BigCmp(a2, BigMulSmall(e2, 361)) < 0

Validate(p) ==
    IF p.N <= 0 \/ p.M <= 0 \/ p.Lambda <= 0
    THEN Err("unclassified", "invalid dimension parameters")
    ELSE IF p.K # p.Lambda
    THEN Err("unclassified", "k should be equal to lambda")
    ELSE IF ~ApproxSqrt(p.Alpha, p.N)
    THEN Err("unclassified", "alpha should be approximately sqrt(n)")
    ELSE IF ~ApproxSqrt(p.Gamma, p.N)
    THEN Err("unclassified", "gamma should be approximately sqrt(n)")
    ELSE IF ~ApproxSqrt(p.Eta, p.N)
    THEN Err("unclassified", "eta should be approximately sqrt(n)")
    ELSE IF AlphaPrimeOff(p.AlphaPrime, p.N, p.M)
    THEN Err("unclassified", "alphaPrime should be n^2.5 * m")
    ELSE IF p.QBig = NilInt
    THEN Panic("nil pointer dereference")
    ELSE IF ~BigRingConstructible(p.M, p.QBig)
    THEN Err("unclassified", "error creating ring")
    ELSE NoErr

\* a parameter set of a KEM run: the Parameters value with the modulus also
\* as the integer Q
WithIntegerModulus(p, q) ==
    [Name |-> p.Name, SecurityLevel |-> p.SecurityLevel,
     N |-> p.N, M |-> p.M, Lambda |-> p.Lambda, LogQ |-> p.LogQ,
     QBig |-> p.QBig, Q |-> q, K |-> p.K,
     Alpha |-> p.Alpha, Gamma |-> p.Gamma, Eta |-> p.Eta,
     AlphaPrime |-> p.AlphaPrime, LogEta |-> p.LogEta,
     KeyPublicKeySize |-> p.KeyPublicKeySize,
     KeyPrivateKeySize |-> p.KeyPrivateKeySize,
     KeyCiphertextSize |-> p.KeyCiphertextSize,
     KeySharedKeySize |-> p.KeySharedKeySize]

\* the parameter sets of the KEM runs: small sets of the shape
\* CalculateParameters builds, with one-byte and two-byte elements
ParamSets ==
    { WithIntegerModulus(
          BuildParameters("OWChCCA-8", 8, 4, 16, 7, BigFromInt(97), 1), 97),
      WithIntegerModulus(
          BuildParameters("OWChCCA-8w", 8, 4, 16, 9, BigFromInt(257), 1), 257) }

-----------------------------------------------------------------------------
(* The prime generator and CalculateParameters.                            *)

Max(a, b) == IF a > b THEN a ELSE b

\* int(math.Log2(float64(x))), incremented unless 2^it = x
CeilLog2(x) == CHOOSE k \in 0..30 : Pow2(k) >= x /\ (k = 0 \/ Pow2(k - 1) < x)

\* int(math.Ceil(math.Log2(math.Sqrt(float64(n))))): the least e with 4^e >= n
CeilLog2Sqrt(n) == CHOOSE e \in 0..15 : Pow2(2 * e) >= n /\ (e = 0 \/ Pow2(2 * e - 2) < n)

\* NextPrime starts at 2^bitSize + 1, PrevPrime at 2^bitSize - nthRoot + 1
\* (a PrevPrime that is not positive is written <<>>, as 0 is)
NewBigNTTFriendlyPrimesGenerator(bitSize, nthRoot) ==
    LET top == BigAdd(BigPow2(bitSize), <<1>>)
        positive == BigCmp(top, nthRoot) > 0
    IN  [BitSize |-> bitSize,
         NthRoot |-> nthRoot,
         NextPrime |-> top,
         PrevPrime |-> IF positive THEN BigSub(top, nthRoot) ELSE <<>>,
         CheckNextPrime |-> TRUE,
         CheckPrevPrime |-> positive]

\* the candidate k steps below cand (a candidate that would be negative is
\* below every bound, as 0 is)
CandidateAt(cand, nthRoot, k) ==
    IF BigCmp(cand, BigMulSmall(nthRoot, k)) < 0 THEN <<>>
    ELSE BigSub(cand, BigMulSmall(nthRoot, k))

\* a loop that returns its first candidate untested
ReturnsAtOnce(cand, twoPowPrevBitSize) == TRUE

\* the loop of NextDownstreamPrime returns at this candidate: it is below
\* 2^(BitSize-1), or it is a prime
ReturnsAt(cand, twoPowPrevBitSize) ==
    BigCmp(cand, twoPowPrevBitSize) < 0 \/ ProbablyPrime(cand)

\* what the loop returns at the candidate it stops at
DownstreamResult(cand, twoPowPrevBitSize) ==
    IF BigCmp(cand, twoPowPrevBitSize) < 0
    THEN [val |-> <<>>, at |-> cand,
          err |-> Err("unclassified", "prime would be below minimum bit size")]
    ELSE [val |-> cand, at |-> cand, err |-> NoErr]

\* the loop of NextDownstreamPrime from candidate cand, sixteen candidates
\* to a step: stops are those of the sixteen at which the loop would return
RECURSIVE DownstreamSearch(_, _, _)
DownstreamFrom(cand, nthRoot, twoPowPrevBitSize, stops) ==
    IF stops = {}
    THEN DownstreamSearch(CandidateAt(cand, nthRoot, 16), nthRoot, twoPowPrevBitSize)
    ELSE DownstreamResult(
             CandidateAt(cand, nthRoot, CHOOSE k \in stops : \A j \in stops : k <= j),
             twoPowPrevBitSize)

DownstreamSearch(cand, nthRoot, twoPowPrevBitSize) ==
    DownstreamFrom(cand, nthRoot, twoPowPrevBitSize,
        {k \in 0..15 : ReturnsAt(CandidateAt(cand, nthRoot, k), twoPowPrevBitSize)})

NextDownstreamPrime(g) ==
    IF ~g.CheckPrevPrime
    THEN [val |-> <<>>, at |-> g.PrevPrime,
          err |-> Err("unclassified", "prime list for downstream primes is exhausted")]
    ELSE DownstreamSearch(g.PrevPrime, g.NthRoot, BigPow2(g.BitSize - 1))

\* the generator a call of NextDownstreamPrime with result r leaves: past
\* the prime returned, or closed at the candidate that crossed the bound
AfterDownstream(g, r) ==
    IF ~g.CheckPrevPrime THEN g
    ELSE IF r.err = NoErr
    THEN [g EXCEPT !.PrevPrime = CandidateAt(r.val, g.NthRoot, 1)]
    ELSE [g EXCEPT !.PrevPrime = r.at, !.CheckPrevPrime = FALSE]

\* the candidate k steps above cand
UpCandidateAt(cand, nthRoot, k) == BigAdd(cand, BigMulSmall(nthRoot, k))

\* the loop of NextUpstreamPrime returns at this candidate: it has reached
\* 2^(BitSize+1), or it is a prime
UpReturnsAt(cand, twoPowNextBitSize) ==
    BigCmp(cand, twoPowNextBitSize) >= 0 \/ ProbablyPrime(cand)

\* a loop that returns the candidate it stops at, whatever it is
UpstreamResultUnbounded(cand, twoPowNextBitSize) ==
    [val |-> cand, at |-> cand, err |-> NoErr]

UpstreamResult(cand, twoPowNextBitSize) ==
    IF BigCmp(cand, twoPowNextBitSize) >= 0
    THEN [val |-> <<>>, at |-> cand,
          err |-> Err("unclassified", "prime would exceed bit size limit")]
    ELSE [val |-> cand, at |-> cand, err |-> NoErr]

\* the loop of NextUpstreamPrime from candidate cand, sixteen candidates to
\* a step
RECURSIVE UpstreamSearch(_, _, _)
UpstreamFrom(cand, nthRoot, twoPowNextBitSize, stops) ==
    IF stops = {}
    THEN UpstreamSearch(UpCandidateAt(cand, nthRoot, 16), nthRoot, twoPowNextBitSize)
    ELSE UpstreamResult(
             UpCandidateAt(cand, nthRoot, CHOOSE k \in stops : \A j \in stops : k <= j),
             twoPowNextBitSize)

UpstreamSearch(cand, nthRoot, twoPowNextBitSize) ==
    UpstreamFrom(cand, nthRoot, twoPowNextBitSize,
        {k \in 0..15 : UpReturnsAt(UpCandidateAt(cand, nthRoot, k), twoPowNextBitSize)})

NextUpstreamPrime(g) ==
    IF ~g.CheckNextPrime
    THEN [val |-> <<>>, at |-> g.NextPrime,
          err |-> Err("unclassified", "prime list for upstream primes is exhausted")]
    ELSE UpstreamSearch(g.NextPrime, g.NthRoot, BigPow2(g.BitSize + 1))

\* a faulty variant of AfterUpstream: one cursor for both directions, the
\* downstream candidate following the upstream one
AfterUpstreamOneCursor(g, r) ==
    IF ~g.CheckNextPrime THEN g
    ELSE IF r.err = NoErr
    THEN [g EXCEPT !.NextPrime = BigAdd(r.val, g.NthRoot), !.PrevPrime = r.val]
    ELSE [g EXCEPT !.NextPrime = r.at, !.CheckNextPrime = FALSE]

AfterUpstream(g, r) ==
    IF ~g.CheckNextPrime THEN g
    ELSE IF r.err = NoErr
    THEN [g EXCEPT !.NextPrime = BigAdd(r.val, g.NthRoot)]
    ELSE [g EXCEPT !.NextPrime = r.at, !.CheckNextPrime = FALSE]

\* logQ = min(60, max(62, m/(2*n)))
LogQFor(n, m) == Min(60, Max(62, m \div (2 * n)))

\* the generator the loop body builds for m
GeneratorFor(n, m) ==
    NewBigNTTFriendlyPrimesGenerator(LogQFor(n, m) + 1, BigFromInt(2 * m))

\* the for loop over m: the m, logQ and q it ends with, and how it ended
\* ("found": break; "empty": return Parameters{}; "exhausted": the loop
\* condition failed, q is still nil)
RECURSIVE FindModulus(_, _, _, _, _)
FindModulus(n, m, logQ, maxLogM, maxM) ==
    IF m > Pow2(maxLogM)
    THEN [m |-> m, logQ |-> logQ, q |-> <<>>, outcome |-> "exhausted"]
    ELSE LET r == NextDownstreamPrime(GeneratorFor(n, m))
         IN  IF r.err # NoErr
             THEN IF m # maxM
                  THEN FindModulus(n, m * 2, LogQFor(n, m), maxLogM, maxM)
                  ELSE [m |-> m, logQ |-> LogQFor(n, m), q |-> <<>>, outcome |-> "empty"]
             ELSE [m |-> m, logQ |-> LogQFor(n, m), q |-> r.val, outcome |-> "found"]

\* fmt.Sprintf("OWChCCA-%d", lambda)
ParameterSetName(lambda) == "OWChCCA-" \o ToString(lambda)

CalculateParameters(lambda) ==
    LET level == lambda
        n == 8 * level
        logN == CeilLog2(n)
        minM == 6 * n * logN + 1
        maxM == 7 * n * logN
        found == FindModulus(n, Pow2(CeilLog2(minM)), 0, CeilLog2(maxM), maxM)
    IN  IF found.outcome = "empty" THEN EmptyParameters
        ELSE IF found.outcome = "exhausted"
        THEN Panic("nil pointer dereference")
        ELSE BuildParameters(ParameterSetName(lambda), lambda, n, found.m,
                             found.logQ, found.q, CeilLog2Sqrt(n))

\* big.Int.Quo for b > 0, one bit of a at a time from the top
RECURSIVE DivFrom(_, _, _, _, _)
DivFrom(a, b, i, quo, rem) ==
    IF i = 0 \/ (quo = <<>> /\ rem = <<>> /\ i < 0) THEN quo
    ELSE LET r2 == BigAdd(BigMulSmall(rem, 2), BigFromInt(BigBit(a, i - 1)))
             ge == BigCmp(r2, b) >= 0
         IN  DivFrom(a, b, i - 1,
                     BigAdd(BigMulSmall(quo, 2), IF ge THEN <<1>> ELSE <<>>),
                     IF ge THEN BigSub(r2, b) ELSE r2)

BigDiv(a, b) == DivFrom(a, b, BigBitLen(a), <<>>, <<>>)

\* the int a big value of at most two limbs is
BigToInt(a) == IF a = <<>> THEN 0 ELSE IF Len(a) = 1 THEN a[1] ELSE a[1] + LimbBase * a[2]

\* CalculateParameters for a level beyond the width of the model's integers
\* (SecurityLevel is an int of 64 bits): n, m, minM and maxM are limbs.
\* int(math.Log2(float64(x))), incremented unless 2^it = x
BigCeilLog2(x) ==
    IF x = BigPow2(BigBitLen(x) - 1) THEN BigBitLen(x) - 1 ELSE BigBitLen(x)

\* logQ = min(60, max(62, m/(2*n)))
LogQForWide(n, m) ==
    LET quo == BigDiv(m, BigMulSmall(n, 2))
        atLeast62 == IF BigCmp(quo, <<62>>) > 0 THEN quo ELSE <<62>>
    IN  IF BigCmp(<<60>>, atLeast62) < 0 THEN 60 ELSE BigToInt(atLeast62)

GeneratorForWide(n, m) ==
    NewBigNTTFriendlyPrimesGenerator(LogQForWide(n, m) + 1, BigMulSmall(m, 2))

\* the for loop over m, as FindModulus
RECURSIVE FindModulusWide(_, _, _, _, _)
FindModulusWide(n, m, logQ, maxLogM, maxM) ==
    IF BigCmp(m, BigPow2(maxLogM)) > 0
    THEN [m |-> m, logQ |-> logQ, q |-> <<>>, outcome |-> "exhausted"]
    ELSE LET r == NextDownstreamPrime(GeneratorForWide(n, m))
         IN  IF r.err # NoErr
             THEN IF m # maxM
                  THEN FindModulusWide(n, BigMulSmall(m, 2), LogQForWide(n, m),
                                       maxLogM, maxM)
                  ELSE [m |-> m, logQ |-> LogQForWide(n, m), q |-> <<>>,
                        outcome |-> "empty"]
             ELSE [m |-> m, logQ |-> LogQForWide(n, m), q |-> r.val,
                   outcome |-> "found"]

\* CalculateParameters down to param.PublicKeySize(), which reads
\* new(big.Int).Set(q): with q still nil the call panics
ModulusSearchWide(lambda) ==
    LET n == BigMulSmall(lambda, 8)
        logN == BigCeilLog2(n)
        minM == BigAdd(BigMulSmall(BigMulSmall(n, 6), logN), <<1>>)
        maxM == BigMulSmall(BigMulSmall(n, 7), logN)
        found == FindModulusWide(n, BigPow2(BigCeilLog2(minM)), 0,
                                 BigCeilLog2(maxM), maxM)
    IN  [n |-> n, minM |-> minM, maxM |-> maxM,
         m |-> found.m, logQ |-> found.logQ, q |-> found.q,
         outcome |-> found.outcome,
         err |-> IF found.outcome = "exhausted"
                 THEN Panic("nil pointer dereference") ELSE NoErr]

-----------------------------------------------------------------------------
(* The parameter registry (pkg/params.go, lines 84-161): what each of its  *)
(* functions does to the registry value between taking and releasing the   *)
(* lock.                                                                   *)

\* var globalRegistry: an empty map and the default name "OWChCCA-64"
RegistryAtLoad == [paramSets |-> <<>>, defaultSet |-> "OWChCCA-64"]

\* map[key] = value
MapPut(map, key, value) ==
    [x \in DOMAIN map \cup {key} |-> IF x = key THEN value ELSE map[x]]

\* fmt.Errorf("parameter set %s not found", name)
NotFound(name) == Err("unclassified", "parameter set " \o name \o " not found")

RegisterParameterSet(reg, p) ==
    [reg EXCEPT !.paramSets = MapPut(reg.paramSets, p.Name, p)]

GetParameterSet(reg, name) ==
    IF name \notin DOMAIN reg.paramSets
    THEN [val |-> EmptyParameters, err |-> NotFound(name)]
    ELSE [val |-> reg.paramSets[name], err |-> NoErr]

\* a map read of a missing key yields the zero value
MapGet(map, key) == IF key \in DOMAIN map THEN map[key] ELSE EmptyParameters

GetDefaultParameterSet(reg) == MapGet(reg.paramSets, reg.defaultSet)

\* a SetDefaultParameterSet that leaves the default name as it is
SetDefaultParameterSetKeeping(reg, name) ==
    IF name \notin DOMAIN reg.paramSets
    THEN [reg |-> reg, err |-> NotFound(name)]
    ELSE [reg |-> reg, err |-> NoErr]

SetDefaultParameterSet(reg, name) ==
    IF name \notin DOMAIN reg.paramSets
    THEN [reg |-> reg, err |-> NotFound(name)]
    ELSE [reg |-> [reg EXCEPT !.defaultSet = name], err |-> NoErr]

\* ListParameterSets returns the names in the order the map iteration takes
IsListing(names, reg) ==
    /\ Len(names) = Cardinality(DOMAIN reg.paramSets)
    /\ {names[i] : i \in 1..Len(names)} = DOMAIN reg.paramSets

\* func init(): three registrations, then the default
PackageInit(reg) ==
    SetDefaultParameterSet(
        RegisterParameterSet(
            RegisterParameterSet(
                RegisterParameterSet(reg, CalculateParameters(16)),
                CalculateParameters(32)),
            CalculateParameters(64)),
        "OWChCCA-16").reg

-----------------------------------------------------------------------------
(* Samplers.  The lattigo samplers and the random source are outside the   *)
(* repository: what they return is drawn from sample values numbered by k. *)

\* n uniform polynomials read into the rows of a matrix (GenerateKeyPair,
\* the matrix A) or rows*cols calls of rand (GenerateRandomMatrix)
UniformMatrix(rows, cols, q, k) ==
    [Rows |-> rows, Cols |-> cols,
     Values |-> MakeSlice([i \in 1..rows |-> MakeSlice([j \in 1..cols |->
                    LET t == 977 * k + 131 * i + 31 * j + 7
                    IN  ((t * t) % 65521) % q])]),
     Modulus |-> q]

\* lambda Gaussian polynomials, one per column of Zb: small values around 0,
\* a negative value v stored as q + v
GaussianMatrix(rows, cols, q, k) ==
    [Rows |-> rows, Cols |-> cols,
     Values |-> MakeSlice([i \in 1..rows |-> MakeSlice([j \in 1..cols |->
                    LET t == 53 * k + 17 * i + 29 * j + 3
                    IN  ((((t * t) % 65521) % 5) - 2) % q])]),
     Modulus |-> q]

\* GenerateSampleDVector: the keyed PRNG makes the sample a function of rho
GenerateSampleDVector(length, alpha_, rho, modulus) ==
    IF ~RingConstructible(length, modulus)
    THEN [val |-> NilVector, err |-> Err("unclassified", "invalid ring")]
    ELSE LET st == SpongeAbsorb(1024, rho, 1, Len(rho))
         IN  [val |-> [Values |-> MakeSlice([i \in 1..length |->
                           LET t == (st + 131 * i + 3) % 46337
                           IN  ((((t * t) % 65521) % 7) - 3) % modulus]),
                       Modulus |-> modulus],
              err |-> NoErr]

-----------------------------------------------------------------------------
(* Seed expansion and the helpers of the KEM (pkg/kem.go).                 *)

\* the inner loop of bytesToVector for one element: bytes j, j+1, ... (counted
\* from 0) are read while bits remain
RECURSIVE ReadBits(_, _, _, _, _)
ReadBits(data, j, bitsRemaining, currentBitOffset, value) ==
    IF bitsRemaining <= 0 \/ j >= Len(data) THEN value
    ELSE LET bitsToRead == Min(8 - currentBitOffset, bitsRemaining)
             extracted == (data[j + 1] \div Pow2(currentBitOffset)) % Pow2(bitsToRead)
         IN  ReadBits(data, j + 1, bitsRemaining - bitsToRead, 0,
                      value * Pow2(bitsToRead) + extracted)

bytesToVector(data, length, bitsPerValue) ==
    IF Len(data) * 8 < length * bitsPerValue THEN NilVector
    ELSE LET mask == Pow2(bitsPerValue) - 1
             result == NewVector(length, mask)
             element(i) ==
                 LET startBit == i * bitsPerValue
                     raw == ReadBits(data, startBit \div 8, bitsPerValue, startBit % 8, 0)
                 IN  raw % Pow2(bitsPerValue)      \* value.And(value, mask)
         IN  [result EXCEPT !.Values =
                  MakeSlice([i \in 1..length |->
                                 VecSet(result, i - 1, element(i - 1)).Values[i]])]

\* the element bytesToBinaryVector stores at index i
BinaryElement(result, data, i) ==
    LET bitValue == (data[(i \div 8) + 1] \div Pow2(i % 8)) % 2
    IN  IF bitValue = 1 THEN VecSet(result, i, 1).Values[i + 1]
        ELSE VecSet(result, i, 0).Values[i + 1]

bytesToBinaryVector(data, length) ==
    LET result == NewVector(length, 1)
    IN  IF Len(data) * 8 < length THEN NilVector
        ELSE [result EXCEPT !.Values =
                  MakeSlice([i \in 1..length |-> BinaryElement(result, data, i - 1)])]

expandSeed(seed, n, lambda, logEta) ==
    LET m == Sha3Sum256(seed)
        sSize == (n * (logEta + 1)) \div 8
        rhoSize == lambda \div 8
        h0Size == lambda \div 8
        h1Size == lambda \div 8
        totalSize == sSize + rhoSize + h0Size + h1Size
        expandedBytes == Sha3Read512(m, totalSize)
        sBits == SubSeq(expandedBytes, 1, sSize)
        rho == SubSeq(expandedBytes, sSize + 1, sSize + rhoSize)
        h0Bits == SubSeq(expandedBytes, sSize + rhoSize + 1, sSize + rhoSize + h0Size)
        h1Bits == SubSeq(expandedBytes, sSize + rhoSize + h0Size + 1, totalSize)
    IN  [s |-> bytesToVector(sBits, n, logEta + 1),
         rho |-> rho,
         h0 |-> bytesToBinaryVector(h0Bits, lambda),
         h1 |-> bytesToBinaryVector(h1Bits, lambda)]

\* hash3: a MarshalBinary error is dropped and nothing is written for it
hash3(x, hatH, h) ==
    Sha3Sum256(Concat3(VecMarshalBinary(x).data,
                       VecMarshalBinary(hatH).data,
                       VecMarshalBinary(h).data))

computeHatH(uTs, h, modulus) ==
    LET halfQ == modulus \div 2
        scaled == VecScalarMultiply(h, halfQ)
    IN  VecAdd(uTs, scaled)

\* the element roundVector stores at index i for the value val
RoundElement(result, i, val, modulus) ==
    LET halfQ == modulus \div 2
        distToZero == IF val > halfQ THEN modulus - val ELSE val
        distToHalfQ == IF val - halfQ < 0 THEN -(val - halfQ) ELSE val - halfQ
    IN  IF distToZero <= distToHalfQ THEN VecSet(result, i, 0).Values[i + 1]
        ELSE VecSet(result, i, 1).Values[i + 1]

roundVector(v, modulus) ==
    LET length == VecLength(v)
        result == NewVector(length, 1)
    IN  [result EXCEPT !.Values =
             MakeSlice([i \in 1..length |->
                            RoundElement(result, i - 1, v.Values[i], modulus)])]

\* the 16 bytes of "OW-ChCCA-KEM-KDF"
KdfLabel == <<79, 87, 45, 67, 104, 67, 67, 65, 45, 75, 69, 77, 45, 75, 68, 70>>

kdf(input, outputSize) == Sha3Read512(input \o KdfLabel, outputSize)

\* a faulty variant of constructCiphertext: the two masked seeds change places
constructCiphertextSwapped(c0, c1, x, hatH0, hatH1) ==
    LET xBytes == VecMarshalBinary(x)
        hatH0Bytes == VecMarshalBinary(hatH0)
        hatH1Bytes == VecMarshalBinary(hatH1)
    IN  IF xBytes.err # NoErr THEN [data |-> <<>>, err |-> xBytes.err]
        ELSE IF hatH0Bytes.err # NoErr THEN [data |-> <<>>, err |-> hatH0Bytes.err]
        ELSE IF hatH1Bytes.err # NoErr THEN [data |-> <<>>, err |-> hatH1Bytes.err]
        ELSE [data |-> c1 \o c0 \o xBytes.data \o hatH0Bytes.data \o hatH1Bytes.data,
              err |-> NoErr]

constructCiphertext(c0, c1, x, hatH0, hatH1) ==
    LET xBytes == VecMarshalBinary(x)
        hatH0Bytes == VecMarshalBinary(hatH0)
        hatH1Bytes == VecMarshalBinary(hatH1)
    IN  IF xBytes.err # NoErr THEN [data |-> <<>>, err |-> xBytes.err]
        ELSE IF hatH0Bytes.err # NoErr THEN [data |-> <<>>, err |-> hatH0Bytes.err]
        ELSE IF hatH1Bytes.err # NoErr THEN [data |-> <<>>, err |-> hatH1Bytes.err]
        ELSE [data |-> c0 \o c1 \o xBytes.data \o hatH0Bytes.data \o hatH1Bytes.data,
              err |-> NoErr]

ParseFailure(msg) ==
    [c0 |-> <<>>, c1 |-> <<>>, x |-> NilVector, hatH0 |-> NilVector,
     hatH1 |-> NilVector, err |-> Err("InvalidCiphertext", msg)]

parseCiphertext(ciphertext, m, lambda, modulus) ==
    IF Len(ciphertext) < 2 * (lambda \div 8) THEN ParseFailure("ciphertext too short")
    ELSE
      LET c0 == SubSeq(ciphertext, 1, lambda \div 8)
          c1 == SubSeq(ciphertext, (lambda \div 8) + 1, 2 * (lambda \div 8))
          pos0 == 2 * (lambda \div 8)
          xSize == VecEncodedSize(NewVector(m, modulus))
          hSize == VecEncodedSize(NewVector(lambda, modulus))
          pos1 == pos0 + xSize
          pos2 == pos1 + hSize
          x == VecUnmarshalBinary(NewVector(m, modulus),
                                  SubSeq(ciphertext, pos0 + 1, pos0 + xSize))
          hatH0 == VecUnmarshalBinary(NewVector(lambda, modulus),
                                      SubSeq(ciphertext, pos1 + 1, pos1 + hSize))
          hatH1 == VecUnmarshalBinary(NewVector(lambda, modulus),
                                      SubSeq(ciphertext, pos2 + 1, pos2 + hSize))
      IN  IF Len(ciphertext) < pos0 + xSize
          THEN ParseFailure("ciphertext too short for x")
          ELSE IF x.err # NoErr THEN ParseFailure("failed to parse x")
          ELSE IF Len(ciphertext) < pos1 + hSize
          THEN ParseFailure("ciphertext too short for hatH0")
          ELSE IF hatH0.err # NoErr THEN ParseFailure("failed to parse hatH0")
          ELSE IF Len(ciphertext) < pos2 + hSize
          THEN ParseFailure("ciphertext too short for hatH1")
          ELSE IF hatH1.err # NoErr THEN ParseFailure("failed to parse hatH1")
          ELSE [c0 |-> c0, c1 |-> c1, x |-> x.val, hatH0 |-> hatH0.val,
                hatH1 |-> hatH1.val, err |-> NoErr]

-----------------------------------------------------------------------------
(* Keys (pkg/kem.go).                                                      *)

NilPK == [nil |-> TRUE]
NilSK == [nil |-> TRUE]
NilParams == [nil |-> TRUE]

PublicKeyBytes(k) ==
    LET aBytes == MatMarshalBinary(k.a)
        u0Bytes == MatMarshalBinary(k.u0)
        u1Bytes == MatMarshalBinary(k.u1)
    IN  IF aBytes.err # NoErr
        THEN [data |-> <<>>, err |-> Err("Serialization", aBytes.err.msg)]
        ELSE IF u0Bytes.err # NoErr
        THEN [data |-> <<>>, err |-> Err("Serialization", u0Bytes.err.msg)]
        ELSE IF u1Bytes.err # NoErr
        THEN [data |-> <<>>, err |-> Err("Serialization", u1Bytes.err.msg)]
        ELSE [data |-> Concat3(aBytes.data, u0Bytes.data, u1Bytes.data), err |-> NoErr]

PublicKeyEqual(k, other) ==
    /\ k.Params.Name = other.Params.Name
    /\ MatEqual(k.u0, other.u0)
    /\ MatEqual(k.u1, other.u1)
    /\ MatEqual(k.a, other.a)

\* PublicKey.UnmarshalBinary on a receiver that holds only Params
PublicKeyUnmarshalBinary(p, data) ==
    IF Len(data) < p.KeyPublicKeySize
    THEN [key |-> NilPK, err |-> Err("Deserialization", "insufficient data")]
    ELSE
      LET n == p.N
          m == p.M
          lambda == p.Lambda
          modulus == p.Q
          aSize == 8 + n * m * ElementSize(modulus)
          uSize == 8 + n * lambda * ElementSize(modulus)
          a == MatUnmarshalBinary(NewMatrix(n, m, modulus), SubSeq(data, 1, aSize))
          u0 == MatUnmarshalBinary(NewMatrix(n, lambda, modulus),
                                   SubSeq(data, aSize + 1, aSize + uSize))
          u1 == MatUnmarshalBinary(NewMatrix(n, lambda, modulus),
                                   SubSeq(data, aSize + uSize + 1, aSize + 2 * uSize))
      IN  IF Len(data) < aSize + 2 * uSize
          THEN [key |-> NilPK, err |-> Err("Deserialization", "data too short")]
          ELSE IF a.err # NoErr
          THEN [key |-> NilPK, err |-> Err("Deserialization", a.err.msg)]
          ELSE IF u0.err # NoErr
          THEN [key |-> NilPK, err |-> Err("Deserialization", u0.err.msg)]
          ELSE IF u1.err # NoErr
          THEN [key |-> NilPK, err |-> Err("Deserialization", u1.err.msg)]
          ELSE [key |-> [nil |-> FALSE, Params |-> p, a |-> a.val,
                         u0 |-> u0.val, u1 |-> u1.val],
                err |-> NoErr]

PrivateKeyBytes(k) ==
    LET zbBytes == MatMarshalBinary(k.zb)
        bFlag == IF k.b THEN 1 ELSE 0
    IN  IF zbBytes.err # NoErr
        THEN [data |-> <<>>, err |-> Err("Serialization", zbBytes.err.msg)]
        ELSE [data |-> Append(zbBytes.data, bFlag), err |-> NoErr]

PrivateKeyEqual(k, other) ==
    /\ k.b = other.b
    /\ MatEqual(k.zb, other.zb)
    /\ PublicKeyEqual(k.Pk, other.Pk)

\* a variant of PrivateKey.UnmarshalBinary that takes the b flag as optional:
\* a buffer that ends right after Zb is read as a key with b = false
PrivateKeyUnmarshalBinaryFlagOptional(pubKey, data) ==
    LET p == pubKey.Params
        zbSize == 8 + p.M * p.Lambda * ElementSize(p.Q)
        zb == MatUnmarshalBinary(NewMatrix(p.M, p.Lambda, p.Q), SubSeq(data, 1, zbSize))
    IN  IF Len(data) < zbSize
        THEN [key |-> NilSK, err |-> Err("Deserialization", "insufficient data")]
        ELSE IF zb.err # NoErr
        THEN [key |-> NilSK, err |-> Err("Deserialization", zb.err.msg)]
        ELSE [key |-> [nil |-> FALSE, Pk |-> pubKey, zb |-> zb.val,
                       b |-> (Len(data) > zbSize /\ data[zbSize + 1] = 1)],
              err |-> NoErr]

\* PrivateKey.UnmarshalBinary on a receiver that holds only Pk
PrivateKeyUnmarshalBinary(pubKey, data) ==
    LET p == pubKey.Params
        m == p.M
        lambda == p.Lambda
        modulus == p.Q
        zbSize == 8 + m * lambda * ElementSize(modulus)
        expectedSize == zbSize + 1
        zb == MatUnmarshalBinary(NewMatrix(m, lambda, modulus), SubSeq(data, 1, zbSize))
    IN  IF Len(data) < expectedSize
        THEN [key |-> NilSK, err |-> Err("Deserialization", "insufficient data")]
        ELSE IF zb.err # NoErr
        THEN [key |-> NilSK, err |-> Err("Deserialization", zb.err.msg)]
        ELSE [key |-> [nil |-> FALSE, Pk |-> pubKey, zb |-> zb.val,
                       b |-> (data[zbSize + 1] = 1)],
              err |-> NoErr]

-----------------------------------------------------------------------------
(* GenerateKeyPair.                                                        *)

\* aZb[i][j]: MulCoeffsBarrett multiplies the coefficients of row i of A and
\* column j of Zb one by one mod q, and Vector.Sum adds them up mod q
AZbElement(a, zb, i, j) ==
    LET q == a.Modulus
        coeffics == [Values |-> MakeSlice([k \in 1..a.Cols |->
                                   (a.Values[i][k] * zb.Values[k][j]) % q]),
                     Modulus |-> q]
    IN  VecSum(coeffics)

\* an assignment with the two branches exchanged
AssignBranchesCrossed(b, aZb, zq) ==
    IF b THEN [u0 |-> aZb, u1 |-> zq] ELSE [u1 |-> aZb, u0 |-> zq]

\* which of u0, u1 receives A*Zb and which the uniform matrix
AssignBranches(b, aZb, zq) ==
    IF b THEN [u1 |-> aZb, u0 |-> zq] ELSE [u0 |-> aZb, u1 |-> zq]

\* keySample numbers what the samplers return, bByte is the byte read for b
\* GenerateKeyPair from "if err := kem.Params.Validate(); err != nil" on
GenerateKeyPairValidated(err, p, keySample, bByte) ==
    IF err # NoErr
    THEN [pk |-> NilPK, sk |-> NilSK, err |-> err]
    ELSE
      LET n == p.N
          m == p.M
          lambda == p.Lambda
          modulus == p.Q
          a == UniformMatrix(n, m, modulus, keySample)
          b == (bByte % 2 = 1)
          zb == GaussianMatrix(m, lambda, modulus, keySample)
          aZb == [Rows |-> n, Cols |-> lambda,
                  Values |-> MakeSlice([i \in 1..n |-> MakeSlice([j \in 1..lambda |->
                                 AZbElement(a, zb, i, j)])]),
                  Modulus |-> modulus]
          zq == UniformMatrix(n, lambda, modulus, keySample + 3)
          u == AssignBranches(b, aZb, zq)
          pubKey == [nil |-> FALSE, Params |-> p, a |-> a, u0 |-> u.u0, u1 |-> u.u1]
      IN  [pk |-> pubKey,
           sk |-> [nil |-> FALSE, Pk |-> pubKey, zb |-> zb, b |-> b],
           err |-> NoErr]

GenerateKeyPair(p, keySample, bByte) ==
    GenerateKeyPairValidated(Validate(p), p, keySample, bByte)

-----------------------------------------------------------------------------
(* Encapsulate.                                                            *)

\* the locals c0, c1, x, hatH0, hatH1, hatK0, hatK1 of Encapsulate before any of
\* them is assigned
NoParts ==
    [c0 |-> <<>>, c1 |-> <<>>, x |-> NilVector, hatH0 |-> NilVector,
     hatH1 |-> NilVector, hatK0 |-> <<>>, hatK1 |-> <<>>]

EncFailure(err) == [ct |-> <<>>, ss |-> <<>>, err |-> err, parts |-> NoParts]

\* lines 408-435: the masks, the ciphertext and the shared key, once x, hatH0
\* and hatH1 are computed
EncapsulateOutput(p, r, g, x, hatH0, hatH1) ==
    LET hatK0 == SubSeq(hash3(x, hatH0, g.h0), 1, p.Lambda \div 8)
        hatK1 == SubSeq(hash3(x, hatH1, g.h1), 1, p.Lambda \div 8)
        c0 == XorBytes(hatK0, r)
        c1 == XorBytes(hatK1, r)
        ciphertext == constructCiphertext(c0, c1, x, hatH0, hatH1)
    IN  IF ciphertext.err # NoErr
        THEN EncFailure(Wrap("failed to construct ciphertext", ciphertext.err))
        ELSE [ct |-> ciphertext.data, ss |-> kdf(r, p.KeySharedKeySize), err |-> NoErr,
              parts |-> [c0 |-> c0, c1 |-> c1, x |-> x, hatH0 |-> hatH0,
                         hatH1 |-> hatH1, hatK0 |-> hatK0, hatK1 |-> hatK1]]

\* lines 376-406: hatH0 and hatH1, once x is computed
EncapsulateHatH(p, pubKey, r, g, s, x) ==
    LET modulus == p.Q
        u0ts == MatMultiplyVector(MatTranspose(pubKey.u0), s)
        u1ts == MatMultiplyVector(MatTranspose(pubKey.u1), s)
        hatH0 == computeHatH(u0ts.val, g.h0, modulus)
        hatH1 == computeHatH(u1ts.val, g.h1, modulus)
    IN  IF u0ts.err # NoErr THEN EncFailure(Wrap("failed to compute U0^T*s", u0ts.err))
        ELSE IF g.h0 = NilVector THEN EncFailure(Panic("nil h0"))
        ELSE IF hatH0.err # NoErr
        THEN EncFailure(Wrap("failed to compute hatH0", hatH0.err))
        ELSE IF u1ts.err # NoErr
        THEN EncFailure(Wrap("failed to compute U1^T*s", u1ts.err))
        ELSE IF g.h1 = NilVector THEN EncFailure(Panic("nil h1"))
        ELSE IF hatH1.err # NoErr
        THEN EncFailure(Wrap("failed to compute hatH1", hatH1.err))
        ELSE EncapsulateOutput(p, r, g, x, hatH0.val, hatH1.val)

\* lines 352-374: x = A^T*s + e, once the seed is expanded into g
EncapsulateExpanded(p, pubKey, r, g) ==
    LET modulus == p.Q
        s == [g.s EXCEPT !.Modulus = modulus]
        e == GenerateSampleDVector(p.M, p.AlphaPrime, g.rho, modulus)
        ats == MatMultiplyVector(MatTranspose(pubKey.a), s)
        x == VecAdd(ats.val, e.val)
    IN  IF g.s = NilVector THEN EncFailure(Panic("nil s"))
        ELSE IF e.err # NoErr
        THEN EncFailure(Wrap("failed to sample error vector", e.err))
        ELSE IF ats.err # NoErr THEN EncFailure(Wrap("failed to compute A^T*s", ats.err))
        ELSE IF x.err # NoErr
        THEN EncFailure(Wrap("failed to compute x = A^T*s + e", x.err))
        ELSE EncapsulateHatH(p, pubKey, r, g, s, x.val)

\* OwChCCAKEM.Encapsulate with kem.Params = p; r is the seed read from rand.Reader
Encapsulate(p, pubKey, r) ==
    EncapsulateExpanded(p, pubKey, r, expandSeed(r, p.N, p.Lambda, p.LogEta))

-----------------------------------------------------------------------------
(* Decapsulate.                                                            *)

\* what Decapsulate returns, with how far it came (stage) and the values of
\* the four predicates it verifies last
DecResult(ss, err, stage, xOK, cnbOK, hbOK, hatHnbOK) ==
    [ss |-> ss, err |-> err, stage |-> stage,
     xOK |-> xOK, cnbOK |-> cnbOK, hbOK |-> hbOK, hatHnbOK |-> hatHnbOK]

DecFailure(err, stage) == DecResult(<<>>, err, stage, FALSE, FALSE, FALSE, FALSE)

\* a faulty variant of SelectBranch: the masked seeds cb and cnb of the two
\* branches are taken the wrong way round
SelectBranchCrossed(b, c0, c1, hatH0, hatH1, u0, u1) ==
    IF b THEN [hatHb |-> hatH1, hatHnb |-> hatH0, cb |-> c0, cnb |-> c1, unb |-> u0]
    ELSE [hatHb |-> hatH0, hatHnb |-> hatH1, cb |-> c1, cnb |-> c0, unb |-> u1]

\* lines 464-472: the components of the private branch b and of the other one
SelectBranch(b, c0, c1, hatH0, hatH1, u0, u1) ==
    IF b THEN [hatHb |-> hatH1, hatHnb |-> hatH0, cb |-> c1, cnb |-> c0, unb |-> u0]
    ELSE [hatHb |-> hatH0, hatHnb |-> hatH1, cb |-> c0, cnb |-> c1, unb |-> u1]

\* lines 508-512
SelectH(b, h0, h1) ==
    IF b THEN [hb |-> h1, hnb |-> h0] ELSE [hb |-> h0, hnb |-> h1]

\* subtle.ConstantTimeCompare(x, y) = 1
ConstantTimeEqual(x, y) ==
    Len(x) = Len(y) /\ \A i \in 1..Len(x) : x[i] = y[i]

\* a faulty variant of VerifyChecks: the comparison of cnb is left out
VerifyChecksWithoutCnb(xOK, cnbOK, hbOK, hatHnbOK) ==
    IF ~xOK THEN ErrDecapsulationFailed
    ELSE IF ~hbOK THEN ErrDecapsulationFailed
    ELSE IF ~hatHnbOK THEN ErrDecapsulationFailed
    ELSE NoErr

\* a faulty variant of VerifyChecks: the comparison of hatHnb is left out
VerifyChecksWithoutHatHnb(xOK, cnbOK, hbOK, hatHnbOK) ==
    IF ~xOK THEN ErrDecapsulationFailed
    ELSE IF ~cnbOK THEN ErrDecapsulationFailed
    ELSE IF ~hbOK THEN ErrDecapsulationFailed
    ELSE NoErr

\* a faulty variant of VerifyChecks: each comparison reports under its own text
VerifyChecksNamingCheck(xOK, cnbOK, hbOK, hatHnbOK) ==
    IF ~xOK THEN Err("DecapsulationFailed", "x mismatch")
    ELSE IF ~cnbOK THEN Err("DecapsulationFailed", "cnb mismatch")
    ELSE IF ~hbOK THEN Err("DecapsulationFailed", "hb mismatch")
    ELSE IF ~hatHnbOK THEN Err("DecapsulationFailed", "hatHnb mismatch")
    ELSE NoErr

\* lines 554-577: the error of the first predicate that fails
VerifyChecks(xOK, cnbOK, hbOK, hatHnbOK) ==
    IF ~xOK THEN ErrDecapsulationFailed
    ELSE IF ~cnbOK THEN ErrDecapsulationFailed
    ELSE IF ~hbOK THEN ErrDecapsulationFailed
    ELSE IF ~hatHnbOK THEN ErrDecapsulationFailed
    ELSE NoErr

\* lines 554-582: the four predicates in their order, and the shared key
DecapsulateVerdict(p, r, xOK, cnbOK, hbOK, hatHnbOK) ==
    IF VerifyChecks(xOK, cnbOK, hbOK, hatHnbOK) = NoErr
    THEN DecResult(kdf(r, p.KeySharedKeySize), NoErr, "checks",
                   xOK, cnbOK, hbOK, hatHnbOK)
    ELSE DecResult(<<>>, VerifyChecks(xOK, cnbOK, hbOK, hatHnbOK), "checks",
                   xOK, cnbOK, hbOK, hatHnbOK)

\* lines 530-577: x' and the four comparisons, once hatHnb' is computed
DecapsulateCompare(p, privKey, x, sel, hbPrime, r, g, hatHnbPrime) ==
    LET modulus == p.Q
        s == [g.s EXCEPT !.Modulus = modulus]
        hs == SelectH(privKey.b, g.h0, g.h1)
        hatKnb == SubSeq(hash3(x, hatHnbPrime, hs.hnb), 1, p.Lambda \div 8)
        e == GenerateSampleDVector(p.M, p.AlphaPrime, g.rho, modulus)
        ats == MatMultiplyVector(MatTranspose(privKey.Pk.a), s)
        xPrime == VecAdd(ats.val, e.val)
        cnbCalculated == XorBytes(hatKnb, r)
    IN  IF e.err # NoErr
        THEN DecFailure(Wrap("failed to sample error vector", e.err), "lattice")
        ELSE IF ats.err # NoErr
        THEN DecFailure(Wrap("failed to compute A^T*s", ats.err), "lattice")
        ELSE IF xPrime.err # NoErr
        THEN DecFailure(Wrap("failed to compute x' = A^T*s + e", xPrime.err), "lattice")
        ELSE DecapsulateVerdict(p, r,
                 VecEqual(x, xPrime.val),
                 ConstantTimeEqual(sel.cnb, cnbCalculated),
                 VecEqual(hbPrime, hs.hb),
                 VecEqual(hatHnbPrime, sel.hatHnb))

\* lines 504-528: hatHnb' = Unb^T*s + hnb*floor(q/2), once the recovered seed
\* is expanded into g
DecapsulateExpanded(p, privKey, x, sel, hbPrime, r, g) ==
    LET modulus == p.Q
        s == [g.s EXCEPT !.Modulus = modulus]
        hs == SelectH(privKey.b, g.h0, g.h1)
        unbts == MatMultiplyVector(MatTranspose(sel.unb), s)
        hatHnbPrime == computeHatH(unbts.val, hs.hnb, modulus)
    IN  IF g.s = NilVector THEN DecFailure(Panic("nil s"), "lattice")
        ELSE IF unbts.err # NoErr
        THEN DecFailure(Wrap("failed to compute Unb^T*s", unbts.err), "lattice")
        ELSE IF hs.hnb = NilVector THEN DecFailure(Panic("nil hnb"), "lattice")
        ELSE IF hatHnbPrime.err # NoErr
        THEN DecFailure(Wrap("failed to compute hatHnb'", hatHnbPrime.err), "lattice")
        ELSE DecapsulateCompare(p, privKey, x, sel, hbPrime, r, g, hatHnbPrime.val)

\* lines 491-504: hb' and the recovered seed r = cb xor hatKb, once
\* hatHb - Zb^T*x is computed
DecapsulateRecover(p, privKey, x, sel, hbPrime) ==
    LET hatKb == SubSeq(hash3(x, sel.hatHb, hbPrime), 1, p.Lambda \div 8)
        r == XorBytes(sel.cb, hatKb)
    IN  DecapsulateExpanded(p, privKey, x, sel, hbPrime, r,
                            expandSeed(r, p.N, p.Lambda, p.LogEta))

\* lines 454-492: the branch of the private bit, Zb^T*x and the difference
DecapsulateParsed(p, privKey, parsed) ==
    LET x == parsed.x
        sel == SelectBranch(privKey.b, parsed.c0, parsed.c1, parsed.hatH0,
                            parsed.hatH1, privKey.Pk.u0, privKey.Pk.u1)
        zbtx == MatMultiplyVector(MatTranspose(privKey.zb), x)
        diff == VecSubtract(sel.hatHb, zbtx.val)
    IN  IF parsed.err # NoErr
        THEN DecFailure(Wrap("failed to parse ciphertext", parsed.err), "parse")
        ELSE IF zbtx.err # NoErr
        THEN DecFailure(Wrap("failed to compute Zb^T*x", zbtx.err), "lattice")
        ELSE IF diff.err # NoErr
        THEN DecFailure(Wrap("failed to compute hatHb - Zb^T*x", diff.err), "lattice")
        ELSE DecapsulateRecover(p, privKey, x, sel, roundVector(diff.val, p.Q))

\* OwChCCAKEM.Decapsulate with kem.Params = p
Decapsulate(p, privKey, ciphertext) ==
    DecapsulateParsed(p, privKey, parseCiphertext(ciphertext, p.M, p.Lambda, p.Q))

-----------------------------------------------------------------------------
(* The facade (owchcca.go, lines 133-184).                                 *)

FacadeEncapsulate(pubKey, r) ==
    IF pubKey = NilPK THEN EncFailure(ErrInvalidPublicKey)
    ELSE Encapsulate(pubKey.Params, pubKey, r)

\* a faulty variant of FacadeDecapsulate: the back-reference is not looked at
\* and Params is read through the nil *PublicKey
FacadeDecapsulateNoBackRefCheck(privKey, ciphertext) ==
    IF privKey = NilSK THEN DecFailure(ErrInvalidPrivateKey, "facade")
    ELSE IF privKey.Pk = NilPK
    THEN DecFailure(Panic("nil pointer dereference"), "facade")
    ELSE Decapsulate(privKey.Pk.Params, privKey, ciphertext)

\* a nil *PrivateKey, or one whose Public() is nil
FacadeDecapsulate(privKey, ciphertext) ==
    IF privKey = NilSK THEN DecFailure(ErrInvalidPrivateKey, "facade")
    ELSE IF privKey.Pk = NilPK THEN DecFailure(ErrInvalidPrivateKey, "facade")
    ELSE Decapsulate(privKey.Pk.Params, privKey, ciphertext)

ParsePublicKey(data, paramsPtr) ==
    IF paramsPtr = NilParams THEN [key |-> NilPK, err |-> ErrParameterValidation]
    ELSE PublicKeyUnmarshalBinary(paramsPtr, data)

ParsePrivateKey(data, pubKey) ==
    IF pubKey = NilPK THEN [key |-> NilSK, err |-> ErrInvalidPublicKey]
    ELSE PrivateKeyUnmarshalBinary(pubKey, data)

-----------------------------------------------------------------------------
(* The callers: what the tests of the repository do with a ciphertext      *)
(* before they hand it to Decapsulate, and the seeds rand.Reader yields.   *)

\* the k-th seed of size bytes read from rand.Reader
SeedBytes(k, size) == MakeSlice([i \in 1..size |-> (97 * k + 31 * i + 5) % 256])

\* the byte a caller appends
FillByte == 165

NoEdit == [op |-> "none", pos |-> 0, arg |-> 0]

\* flip bit arg of byte pos (counted from 1)
FlipEdit(pos, bit) == [op |-> "flip", pos |-> pos, arg |-> bit]

\* drop the last arg bytes
CutEdit(k) == [op |-> "cut", pos |-> 0, arg |-> k]

\* append arg bytes
AppendEdit(k) == [op |-> "append", pos |-> 0, arg |-> k]

Edits(ct) ==
    {NoEdit}
      \cup {FlipEdit(pos, bit) : pos \in 1..Len(ct), bit \in 0..7}
      \cup {CutEdit(k) : k \in 1..Min(MaxCut, Len(ct))}
      \cup {AppendEdit(k) : k \in 1..MaxExtra}

ApplyEdit(ct, e) ==
    IF e.op = "flip" THEN [ct EXCEPT ![e.pos] = XorByte(@, Pow2(e.arg))]
    ELSE IF e.op = "cut" THEN SubSeq(ct, 1, Len(ct) - e.arg)
    ELSE IF e.op = "append" THEN ct \o [i \in 1..e.arg |-> FillByte]
    ELSE ct

-----------------------------------------------------------------------------
(* The state machine: one run generates a key pair, serializes and parses  *)
(* it, encapsulates once and decapsulates once.  A caller that received an *)
(* error stops.                                                            *)

NotYetBytes == [done |-> FALSE, data |-> <<>>, err |-> NoErr]
NotYetPk == [done |-> FALSE, with |-> "", cut |-> 0, key |-> NilPK, err |-> NoErr]
NotYetSk == [done |-> FALSE, with |-> "", cut |-> 0, key |-> NilSK, err |-> NoErr]
NotYetEnc == [done |-> FALSE, with |-> "", r |-> <<>>, ct |-> <<>>, ss |-> <<>>,
              err |-> NoErr,
              parts |-> [c0 |-> <<>>, c1 |-> <<>>, x |-> NilVector,
                         hatH0 |-> NilVector, hatH1 |-> NilVector,
                         hatK0 |-> <<>>, hatK1 |-> <<>>]]
NotYetDec == [done |-> FALSE, with |-> "", ss |-> <<>>, err |-> NoErr, stage |-> "",
              xOK |-> FALSE, cnbOK |-> FALSE, hbOK |-> FALSE, hatHnbOK |-> FALSE]

\* the results as the run keeps them
BytesDone(res) == [done |-> TRUE, data |-> res.data, err |-> res.err]

KeyDone(with, cut, res) ==
    [done |-> TRUE, with |-> with, cut |-> cut, key |-> res.key, err |-> res.err]

EncDone(with, r, res) ==
    [done |-> TRUE, with |-> with, r |-> r, ct |-> res.ct, ss |-> res.ss,
     err |-> res.err, parts |-> res.parts]

DecDone(with, res) ==
    [done |-> TRUE, with |-> with, ss |-> res.ss, err |-> res.err,
     stage |-> res.stage, xOK |-> res.xOK, cnbOK |-> res.cnbOK, hbOK |-> res.hbOK,
     hatHnbOK |-> res.hatHnbOK]

\* the goroutines of a concurrent run
Procs == 1..NProcs

\* sync.RWMutex with no holder
Unlocked == [w |-> 0, r |-> {}]

\* what a registry call returns: a Parameters value, a list of names, an error
NoResult == [val |-> EmptyParameters, names |-> <<>>, err |-> NoErr]

\* a goroutine that is in no registry call; snap is the registry value at the
\* moment the call took the lock, acc what the call has read so far
IdleCall ==
    [op |-> "", name |-> "", set |-> EmptyParameters, pc |-> "idle", n |-> 0,
     snap |-> RegistryAtLoad, acc |-> <<>>, res |-> NoResult]

\* no pure function called yet
IdleUnit == [op |-> "", in |-> <<>>, out |-> <<>>]

\* the registry as the program is loaded
RegistryIdle ==
    /\ phase = "load"
    /\ registry = RegistryAtLoad
    /\ mu = Unlocked
    /\ calls = [p \in Procs |-> IdleCall]

Init ==
    /\ params \in ParamSets
    /\ pk = NilPK
    /\ sk = NilSK
    /\ genErr = NoErr
    /\ pkBytes = NotYetBytes
    /\ skBytes = NotYetBytes
    /\ parsedPk = NotYetPk
    /\ parsedSk = NotYetSk
    /\ enc = NotYetEnc
    /\ wire = <<>>
    /\ edit = NoEdit
    /\ dec = NotYetDec
    /\ RegistryIdle
    /\ unit = IdleUnit

\* the caller keeps what GenerateKeyPair returned
KeyPairReturned(res) ==
    /\ pk' = res.pk
    /\ sk' = res.sk
    /\ genErr' = res.err

\* owchcca.GenerateKeyPair(params)
GenerateKeyPairStep ==
    /\ pk = NilPK
    /\ genErr = NoErr
    /\ \E keySample \in 0..MaxKeySeed, bByte \in 0..3 :
         KeyPairReturned(GenerateKeyPair(params, keySample, bByte))
    /\ UNCHANGED <<params, pkBytes, skBytes, parsedPk, parsedSk, enc, wire, edit, dec>>
    /\ UNCHANGED <<regVars, unit>>

\* pk.Bytes()
PublicKeyBytesStep ==
    /\ pk # NilPK
    /\ ~pkBytes.done
    /\ pkBytes' = BytesDone(PublicKeyBytes(pk))
    /\ UNCHANGED <<params, pk, sk, genErr, skBytes, parsedPk, parsedSk, enc, wire,
                   edit, dec>>
    /\ UNCHANGED <<regVars, unit>>

\* sk.Bytes()
PrivateKeyBytesStep ==
    /\ pkBytes.done
    /\ pkBytes.err = NoErr
    /\ ~skBytes.done
    /\ skBytes' = BytesDone(PrivateKeyBytes(sk))
    /\ UNCHANGED <<params, pk, sk, genErr, pkBytes, parsedPk, parsedSk, enc, wire,
                   edit, dec>>
    /\ UNCHANGED <<regVars, unit>>

\* data[:len(data)-k], the serialized key a caller hands over with its last
\* k bytes removed
Truncate(data, k) == SubSeq(data, 1, Len(data) - k)

\* the serialized key is handed over whole (0) or with 1..MaxCut bytes removed
KeyCuts(with) == IF with = "truncated" THEN 1..MaxCut ELSE {0}

\* the *Parameters a caller passes to ParsePublicKey
ParsePublicKeyArg(with) == IF with = "nil" THEN NilParams ELSE params

\* owchcca.ParsePublicKey(pkBytes, &params), ParsePublicKey(pkBytes, nil) and
\* ParsePublicKey(pkBytes[:len(pkBytes)-k], &params)
ParsePublicKeyStep ==
    /\ skBytes.done
    /\ skBytes.err = NoErr
    /\ ~parsedPk.done
    /\ \E with \in {"nil", "params", "truncated"} : \E k \in KeyCuts(with) :
         parsedPk' = KeyDone(with, k, ParsePublicKey(Truncate(pkBytes.data, k),
                                                     ParsePublicKeyArg(with)))
    /\ UNCHANGED <<params, pk, sk, genErr, pkBytes, skBytes, parsedSk, enc, wire,
                   edit, dec>>
    /\ UNCHANGED <<regVars, unit>>

\* the *PublicKey a caller passes to ParsePrivateKey
ParsePrivateKeyArg(with) == IF with = "nil" THEN NilPK ELSE parsedPk.key

\* owchcca.ParsePrivateKey(skBytes, parsedPk), ParsePrivateKey(skBytes, nil)
\* and ParsePrivateKey(skBytes[:len(skBytes)-k], parsedPk)
ParsePrivateKeyStep ==
    /\ parsedPk.done
    /\ parsedPk.err = NoErr
    /\ ~parsedSk.done
    /\ \E with \in {"nil", "parsed", "truncated"} : \E k \in KeyCuts(with) :
         parsedSk' = KeyDone(with, k, ParsePrivateKey(Truncate(skBytes.data, k),
                                                     ParsePrivateKeyArg(with)))
    /\ UNCHANGED <<params, pk, sk, genErr, pkBytes, skBytes, parsedPk, enc, wire,
                   edit, dec>>
    /\ UNCHANGED <<regVars, unit>>

\* the *PublicKey a caller passes to Encapsulate
EncapsulateArg(with) ==
    IF with = "generated" THEN pk
    ELSE IF with = "parsed" THEN parsedPk.key
    ELSE NilPK

\* owchcca.Encapsulate(pk)
EncapsulateStep ==
    /\ parsedSk.done
    /\ parsedSk.err = NoErr
    /\ ~enc.done
    /\ \E with \in {"nil", "generated", "parsed"}, k \in 0..MaxSeed :
         enc' = EncDone(with, SeedBytes(k, params.Lambda \div 8),
                        FacadeEncapsulate(EncapsulateArg(with),
                                          SeedBytes(k, params.Lambda \div 8)))
    /\ UNCHANGED <<params, pk, sk, genErr, pkBytes, skBytes, parsedPk, parsedSk,
                   wire, edit, dec>>
    /\ UNCHANGED <<regVars, unit>>

\* the *PrivateKey a caller passes to Decapsulate
DecapsulateArg(with) ==
    IF with = "generated" THEN sk
    ELSE IF with = "parsed" THEN parsedSk.key
    ELSE IF with = "nilPk" THEN [sk EXCEPT !.Pk = NilPK]
    ELSE NilSK

\* owchcca.Decapsulate(sk, wire) on the ciphertext, or on an edited copy of it;
\* an edited ciphertext goes to the generated keys
DecapsulateStep ==
    /\ enc.done
    /\ enc.err = NoErr
    /\ ~dec.done
    /\ \E with \in {"nil", "nilPk", "generated", "parsed"}, e \in Edits(enc.ct) :
         /\ e = NoEdit \/ (with = "generated" /\ enc.with = "generated")
         /\ wire' = ApplyEdit(enc.ct, e)
         /\ edit' = e
         /\ dec' = DecDone(with, FacadeDecapsulate(DecapsulateArg(with),
                                                   ApplyEdit(enc.ct, e)))
    /\ UNCHANGED <<params, pk, sk, genErr, pkBytes, skBytes, parsedPk, parsedSk, enc>>
    /\ UNCHANGED <<regVars, unit>>

Next ==
    \/ GenerateKeyPairStep
    \/ PublicKeyBytesStep
    \/ PrivateKeyBytesStep
    \/ ParsePublicKeyStep
    \/ ParsePrivateKeyStep
    \/ EncapsulateStep
    \/ DecapsulateStep

Spec == Init /\ [][Next]_vars

-----------------------------------------------------------------------------
(* The registry under concurrent callers.  init() runs before any caller;  *)
(* afterwards each goroutine makes registry calls, and each call is a      *)
(* sequence of steps: take the lock, the reads and writes of the body one  *)
(* at a time, release the lock (the deferred Unlock or RUnlock).  A reader *)
(* is admitted while no writer holds the lock; that a waiting writer holds *)
(* back new readers restricts the interleavings and is left out.           *)

\* the KEM run has not started
KemIdle ==
    /\ params = CHOOSE p \in ParamSets : p.Name = "OWChCCA-8"
    /\ pk = NilPK
    /\ sk = NilSK
    /\ genErr = NoErr
    /\ pkBytes = NotYetBytes
    /\ skBytes = NotYetBytes
    /\ parsedPk = NotYetPk
    /\ parsedSk = NotYetSk
    /\ enc = NotYetEnc
    /\ wire = <<>>
    /\ edit = NoEdit
    /\ dec = NotYetDec

RegistryInit == KemIdle /\ RegistryIdle /\ unit = IdleUnit

\* func init()
InitStep ==
    /\ phase = "load"
    /\ phase' = "init"
    /\ registry' = PackageInit(registry)
    /\ UNCHANGED <<mu, calls, kemVars, unit>>

Writers == {"Register", "SetDefault"}

Readers == {"Get", "GetDefault", "List"}

\* the parameter sets callers register: a set of their own, and one that
\* takes the name of a seeded entry
CustomSets ==
    LET own == CHOOSE p \in ParamSets : p.Name = "OWChCCA-8"
    IN  {own, [own EXCEPT !.Name = "OWChCCA-16"]}

\* the names callers ask for: a seeded one, a caller's own, one never registered
QueryNames == {"OWChCCA-16", "OWChCCA-8", "OWChCCA-128"}

CallInputs ==
    {[op |-> "Register", name |-> p.Name, set |-> p] : p \in CustomSets}
      \cup {[op |-> o, name |-> nm, set |-> EmptyParameters] :
                o \in {"SetDefault", "Get"}, nm \in QueryNames}
      \cup {[op |-> o, name |-> "", set |-> EmptyParameters] :
                o \in {"GetDefault", "List"}}

\* a goroutine enters one of the five functions
CallStep(p) ==
    /\ phase # "load"
    /\ calls[p].pc \in {"idle", "done"}
    /\ calls[p].n < MaxCalls
    /\ \E c \in CallInputs :
           calls' = [calls EXCEPT ![p] =
                        [IdleCall EXCEPT !.op = c.op, !.name = c.name, !.set = c.set,
                                         !.pc = "lock", !.n = calls[p].n + 1]]
    /\ UNCHANGED <<phase, registry, mu, kemVars, unit>>

\* sync.RWMutex: Lock waits for the writer and for every reader, RLock for
\* the writer
\* a Lock that does not wait for the readers
CanLockDespiteReaders(m) == m.w = 0

CanLock(m) == m.w = 0 /\ m.r = {}

CanRLock(m) == m.w = 0

\* globalRegistry.mu.Lock()
LockStep(p) ==
    /\ calls[p].pc = "lock"
    /\ calls[p].op \in Writers
    /\ CanLock(mu)
    /\ mu' = [mu EXCEPT !.w = p]
    /\ calls' = [calls EXCEPT ![p].pc = "body", ![p].snap = registry]
    /\ UNCHANGED <<phase, registry, kemVars, unit>>

\* globalRegistry.mu.RLock()
RLockStep(p) ==
    /\ calls[p].pc = "lock"
    /\ calls[p].op \in Readers
    /\ CanRLock(mu)
    /\ mu' = [mu EXCEPT !.r = mu.r \cup {p}]
    /\ calls' = [calls EXCEPT ![p].pc = "body", ![p].snap = registry]
    /\ UNCHANGED <<phase, registry, kemVars, unit>>

\* RegisterParameterSet: globalRegistry.paramSets[params.Name] = params
RegisterWriteStep(p) ==
    /\ calls[p].pc = "body"
    /\ calls[p].op = "Register"
    /\ registry' = RegisterParameterSet(registry, calls[p].set)
    /\ phase' = "changed"
    /\ calls' = [calls EXCEPT ![p].pc = "unlock"]
    /\ UNCHANGED <<mu, kemVars, unit>>

\* SetDefaultParameterSet: the lookup of the name
SetDefaultCheckStep(p) ==
    /\ calls[p].pc = "body"
    /\ calls[p].op = "SetDefault"
    /\ LET r == SetDefaultParameterSet(registry, calls[p].name)
       IN  calls' = [calls EXCEPT ![p].pc = IF r.err = NoErr THEN "write" ELSE "unlock",
                                  ![p].res = [NoResult EXCEPT !.err = r.err]]
    /\ UNCHANGED <<phase, registry, mu, kemVars, unit>>

\* SetDefaultParameterSet: globalRegistry.defaultSet = name
SetDefaultWriteStep(p) ==
    /\ calls[p].pc = "write"
    /\ registry' = [registry EXCEPT !.defaultSet = calls[p].name]
    /\ phase' = "changed"
    /\ calls' = [calls EXCEPT ![p].pc = "unlock"]
    /\ UNCHANGED <<mu, kemVars, unit>>

\* GetParameterSet: the lookup and the result
GetStep(p) ==
    /\ calls[p].pc = "body"
    /\ calls[p].op = "Get"
    /\ LET r == GetParameterSet(registry, calls[p].name)
       IN  calls' = [calls EXCEPT ![p].pc = "unlock",
                                  ![p].res = [NoResult EXCEPT !.val = r.val, !.err = r.err]]
    /\ UNCHANGED <<phase, registry, mu, kemVars, unit>>

\* GetDefaultParameterSet: the read of globalRegistry.defaultSet
GetDefaultNameStep(p) ==
    /\ calls[p].pc = "body"
    /\ calls[p].op = "GetDefault"
    /\ calls' = [calls EXCEPT ![p].pc = "read", ![p].acc = <<registry.defaultSet>>]
    /\ UNCHANGED <<phase, registry, mu, kemVars, unit>>

\* GetDefaultParameterSet: the read of the map entry under that name
GetDefaultEntryStep(p) ==
    /\ calls[p].pc = "read"
    /\ calls' = [calls EXCEPT ![p].pc = "unlock",
                              ![p].res = [NoResult EXCEPT !.val =
                                             MapGet(registry.paramSets, calls[p].acc[1])]]
    /\ UNCHANGED <<phase, registry, mu, kemVars, unit>>

\* ListParameterSets: one iteration of the range loop, in any order, or the
\* return when the range is exhausted
ListStep(p) ==
    /\ calls[p].pc = "body"
    /\ calls[p].op = "List"
    /\ LET acc == calls[p].acc
           rest == DOMAIN registry.paramSets \ {acc[i] : i \in 1..Len(acc)}
       IN  IF rest = {}
           THEN calls' = [calls EXCEPT ![p].pc = "unlock",
                                       ![p].res = [NoResult EXCEPT !.names = acc]]
           ELSE \E nm \in rest : calls' = [calls EXCEPT ![p].acc = Append(acc, nm)]
    /\ UNCHANGED <<phase, registry, mu, kemVars, unit>>

\* the deferred globalRegistry.mu.Unlock() / RUnlock(), then the return
UnlockStep(p) ==
    /\ calls[p].pc = "unlock"
    /\ mu' = IF calls[p].op \in Writers
             THEN [mu EXCEPT !.w = 0]
             ELSE [mu EXCEPT !.r = mu.r \ {p}]
    /\ calls' = [calls EXCEPT ![p].pc = "done"]
    /\ UNCHANGED <<phase, registry, kemVars, unit>>

RegistryNext ==
    \/ InitStep
    \/ \E p \in Procs : CallStep(p)
    \/ \E p \in Procs : LockStep(p)
    \/ \E p \in Procs : RLockStep(p)
    \/ \E p \in Procs : RegisterWriteStep(p)
    \/ \E p \in Procs : SetDefaultCheckStep(p)
    \/ \E p \in Procs : SetDefaultWriteStep(p)
    \/ \E p \in Procs : GetStep(p)
    \/ \E p \in Procs : GetDefaultNameStep(p)
    \/ \E p \in Procs : GetDefaultEntryStep(p)
    \/ \E p \in Procs : ListStep(p)
    \/ \E p \in Procs : UnlockStep(p)

RegistrySpec == RegistryInit /\ [][RegistryNext]_vars

-----------------------------------------------------------------------------
(* The registry under one caller: any sequence of at most MaxRegistryCalls  *)
(* calls after func init(), the last call and what it returned kept in     *)
(* unit together with the registry it found.                               *)

\* the levels callers pass to DefaultParameters: a seeded one and a new one
CallLevels == {8, 16}

\* CalculateParameters on those levels
Calculated == [level \in CallLevels |-> CalculateParameters(level)]

\* DefaultParameters(level): GetParameterSet(name) and, when that fails,
\* CalculateParameters(level) and RegisterParameterSet
DefaultParametersFound(reg, got, calculated) ==
    IF got.err # NoErr
    THEN [reg |-> RegisterParameterSet(reg, calculated), val |-> calculated]
    ELSE [reg |-> reg, val |-> got.val]

DefaultParameters(reg, level) ==
    DefaultParametersFound(reg, GetParameterSet(reg, ParameterSetName(level)),
                           Calculated[level])

\* the values callers register: those of CustomSets and Parameters{}
RegisteredValues == CustomSets \cup {EmptyParameters}

\* the names callers make the default: those of QueryNames and ""
DefaultNames == QueryNames \cup {""}

CallsMade == IF unit = IdleUnit THEN 0 ELSE unit.out.n

CallReady == phase # "load" /\ CallsMade < MaxRegistryCalls

CallReturned(op, in, val, err) ==
    unit' = [op |-> op, in |-> in,
             out |-> [before |-> registry, val |-> val, err |-> err,
                      n |-> CallsMade + 1]]

RegisterCall ==
    /\ CallReady
    /\ \E p \in RegisteredValues :
          /\ registry' = RegisterParameterSet(registry, p)
          /\ CallReturned("Register", p, EmptyParameters, NoErr)
    /\ phase' = "changed"
    /\ UNCHANGED <<mu, calls, kemVars>>

SetDefaultCall ==
    /\ CallReady
    /\ \E name \in DefaultNames :
          /\ registry' = SetDefaultParameterSet(registry, name).reg
          /\ CallReturned("SetDefault", name, EmptyParameters,
                          SetDefaultParameterSet(registry, name).err)
    /\ phase' = "changed"
    /\ UNCHANGED <<mu, calls, kemVars>>

DefaultParametersReturned(level, r) ==
    /\ registry' = r.reg
    /\ CallReturned("DefaultParameters", level, r.val, NoErr)

DefaultParametersCall ==
    /\ CallReady
    /\ \E level \in CallLevels :
          DefaultParametersReturned(level, DefaultParameters(registry, level))
    /\ phase' = "changed"
    /\ UNCHANGED <<mu, calls, kemVars>>

GetDefaultCall ==
    /\ CallReady
    /\ CallReturned("GetDefault", "", GetDefaultParameterSet(registry), NoErr)
    /\ UNCHANGED <<phase, registry, mu, calls, kemVars>>

RegistryCallsNext ==
    \/ InitStep
    \/ RegisterCall
    \/ SetDefaultCall
    \/ DefaultParametersCall
    \/ GetDefaultCall

RegistryCallsSpec == RegistryInit /\ [][RegistryCallsNext]_vars

-----------------------------------------------------------------------------
(* Calls of the pure functions: one call at a time on arguments drawn from *)
(* small sets, with its arguments and what it returned kept in unit.       *)

UnitInit == KemIdle /\ RegistryIdle /\ unit = IdleUnit

\* the levels of TestCalculateParametersDefaultLevels
DefaultLevels == {16, 32, 64}

\* TestCalculateParametersDefaultLevels, one level: param :=
\* CalculateParameters(level), then param.Validate()
CalculateParametersCall(level, param) ==
    [op |-> "CalculateParameters", in |-> level,
     out |-> [param |-> param, err |-> Validate(param)]]

CalculateParametersStep ==
    /\ unit = IdleUnit
    /\ \E level \in DefaultLevels :
           unit' = CalculateParametersCall(level, CalculateParameters(level))
    /\ UNCHANGED <<kemVars, regVars>>

\* the (n, lambda, logEta) expandSeed is called with: those of the KEM runs,
\* and one whose elements of s take three bits and straddle bytes
ExpandShapes ==
    {[n |-> 4, lambda |-> 8, logEta |-> 1], [n |-> 8, lambda |-> 16, logEta |-> 2]}

\* a hash that absorbed the bytes earlier, then reused and written the seed
AbsorbedAfterEarlier(earlier, seed) == earlier \o seed

\* h := sha3.New256(); h.Write(seed): what the hash of a call has absorbed,
\* whatever the hashes of earlier calls absorbed
Absorbed(earlier, seed) == seed

\* a call of expandSeed after calls that hashed the bytes earlier
expandSeedCall(earlier, seed, n, lambda, logEta) ==
    expandSeed(Absorbed(earlier, seed), n, lambda, logEta)

\* expandSeed called twice on one seed, as TestG calls G
ExpandSeedStep ==
    /\ \E shape \in ExpandShapes, k \in 0..MaxUnitSeed :
           LET seed == SeedBytes(k, shape.lambda \div 8)
           IN  unit' = [op |-> "expandSeed",
                        in |-> [seed |-> seed, n |-> shape.n, lambda |-> shape.lambda,
                                logEta |-> shape.logEta],
                        out |-> [first |-> expandSeedCall(<<>>, seed, shape.n,
                                                         shape.lambda, shape.logEta),
                                 second |-> expandSeedCall(seed, seed, shape.n,
                                                          shape.lambda, shape.logEta)]]
    /\ UNCHANGED <<kemVars, regVars>>

\* the vectors roundVector is called on: an element v of Z_q and the element
\* half way round from it
RoundInputs ==
    UNION {{[Values |-> <<v, (v + (p.Q \div 2)) % p.Q>>, Modulus |-> p.Q] :
                v \in 0..(p.Q - 1)} : p \in ParamSets}

\* hbPrime := roundVector(diff, modulus) of Decapsulate
RoundVectorStep ==
    /\ unit = IdleUnit
    /\ \E v \in RoundInputs :
           unit' = [op |-> "roundVector", in |-> v, out |-> roundVector(v, v.Modulus)]
    /\ UNCHANGED <<kemVars, regVars>>

\* a bit h over an odd modulus q with a noise e, |e| < (q/2)/2
NoisyBits ==
    UNION {{[q |-> p.Q, h |-> h, e |-> e] :
                h \in {0, 1}, e \in (1 - ((p.Q \div 2) + 1) \div 2)..(((p.Q \div 2) + 1) \div 2 - 1)} :
           p \in ParamSets}

\* hatH := computeHatH(uTs, h, modulus) with the one-element vectors uTs = (e)
\* and h = (h) over q, then roundVector(hatH, modulus) as Decapsulate rounds
NoisyBitStep ==
    /\ unit = IdleUnit
    /\ \E in \in NoisyBits :
          LET uTs == VecSet(NewVector(1, in.q), 0, in.e)
              h == VecSet(NewVector(1, in.q), 0, in.h)
              hatH == computeHatH(uTs, h, in.q)
          IN  unit' = [op |-> "computeHatH", in |-> in,
                       out |-> [hatH |-> hatH.val, err |-> hatH.err,
                                hPrime |-> roundVector(hatH.val, in.q)]]
    /\ UNCHANGED <<kemVars, regVars>>

\* the row and column counts a serialized matrix may carry in its first
\* eight bytes
KeyShapes == {[rows |-> r, cols |-> c] : r \in {0, 1, 4, 8, 16}, c \in {0, 1, 4, 8, 16}}

\* data with the eight bytes after offset holding the counts of shape
Reheaded(data, offset, shape) ==
    [k \in 1..Len(data) |->
        IF k > offset /\ k <= offset + 4 THEN PutUint32(shape.rows)[k - offset]
        ELSE IF k > offset + 4 /\ k <= offset + 8
        THEN PutUint32(shape.cols)[k - offset - 4]
        ELSE data[k]]

\* where the encodings of A, U0 and U1 start in a serialized public key
MatrixOffset(p, which) ==
    LET aSize == 8 + p.N * p.M * ElementSize(p.Q)
        uSize == 8 + p.N * p.Lambda * ElementSize(p.Q)
    IN  IF which = "a" THEN 0 ELSE IF which = "u0" THEN aSize ELSE aSize + uSize

\* owchcca.ParsePublicKey on the bytes of a generated key, the counts of one
\* of its matrices rewritten
ParsePublicKeyBytesStep ==
    /\ unit = IdleUnit
    /\ \E p \in ParamSets, which \in {"a", "u0", "u1"}, shape \in KeyShapes :
          LET data == PublicKeyBytes(GenerateKeyPair(p, 0, 0).pk).data
          IN  unit' = [op |-> "ParsePublicKey",
                       in |-> [p |-> p, which |-> which, shape |-> shape],
                       out |-> ParsePublicKey(
                                   Reheaded(data, MatrixOffset(p, which), shape), p)]
    /\ UNCHANGED <<kemVars, regVars>>

\* sk.Bytes() of the generated pair with the counts of Zb rewritten, parsed
\* with the pair's public key
ParseReheaded(gen, shape) ==
    ParsePrivateKey(Reheaded(PrivateKeyBytes(gen.sk).data, 0, shape), gen.pk)

\* owchcca.ParsePrivateKey on the bytes of a generated key, the counts of Zb
\* rewritten
ParsePrivateKeyBytesStep ==
    /\ unit = IdleUnit
    /\ \E p \in ParamSets, shape \in KeyShapes :
          unit' = [op |-> "ParsePrivateKey",
                   in |-> [p |-> p, which |-> "zb", shape |-> shape],
                   out |-> ParseReheaded(GenerateKeyPair(p, 0, 0), shape)]
    /\ UNCHANGED <<kemVars, regVars>>

\* levels beyond the default ones: Security128 and Security256
SearchLevels == {128, 256}

\* CalculateParameters down to the end of its loop over m (lines 176-226):
\* n, the m, logQ and q the loop ends with, and the generator built for that m
ModulusSearch(lambda) ==
    LET n == 8 * lambda
        logN == CeilLog2(n)
        minM == 6 * n * logN + 1
        maxM == 7 * n * logN
        found == FindModulus(n, Pow2(CeilLog2(minM)), 0, CeilLog2(maxM), maxM)
    IN  [n |-> n, m |-> found.m, logQ |-> found.logQ, q |-> found.q,
         outcome |-> found.outcome, generator |-> GeneratorFor(n, found.m)]

ModulusSearchStep ==
    /\ unit = IdleUnit
    /\ \E level \in SearchLevels :
           unit' = [op |-> "ModulusSearch", in |-> level, out |-> ModulusSearch(level)]
    /\ UNCHANGED <<kemVars, regVars>>

\* the Parameters values a caller builds by hand from a valid one: each of
\* n, m, lambda, k and q set to a good or a bad value, alpha, gamma, eta and
\* alphaPrime following n and m where these are positive
HandBuilt(n, m, lambda, k, q) ==
    LET base == BuildParameters("OWChCCA-8", 8, 4, 16, 7, BigFromInt(97), 1)
        fits == n > 0 /\ m > 0
    IN  WithIntegerModulus(
            [base EXCEPT !.N = n, !.M = m, !.Lambda = lambda, !.K = k, !.QBig = q,
                         !.Alpha = IF fits THEN Sqrt100(n) ELSE base.Alpha,
                         !.Gamma = IF fits THEN Sqrt100(n) ELSE base.Gamma,
                         !.Eta = IF fits THEN Sqrt100(n) ELSE base.Eta,
                         !.AlphaPrime = IF fits THEN AlphaPrimeOf(n, m)
                                        ELSE base.AlphaPrime],
            IF q = NilInt THEN 0 ELSE BigToInt(q))

\* q absent, good, composite, and prime but not 1 modulo 2m
HandBuiltModuli == {NilInt, BigFromInt(97), BigFromInt(96), BigFromInt(101)}

ParameterValues ==
    {HandBuilt(n, m, lambda, k, q) :
        n \in {-1, 0, 4}, m \in {-16, 0, 12, 16}, lambda \in {-8, 0, 8},
        k \in {7, 8}, q \in HandBuiltModuli}

\* kem := &OwChCCAKEM{Params: p}; p.Validate(), then kem.GenerateKeyPair(nil)
\* with the values the samplers return numbered keySample and bByte
ValidateStep ==
    /\ unit = IdleUnit
    /\ \E p \in ParameterValues, keySample \in 0..1, bByte \in 0..1 :
           unit' = [op |-> "Validate", in |-> p,
                    out |-> [err |-> Validate(p),
                             gen |-> GenerateKeyPair(p, keySample, bByte)]]
    /\ UNCHANGED <<kemVars, regVars>>

\* levels a caller of DefaultParameters may pass: 2^45, 2^46, 2^47
WideLevels == {BigPow2(45), BigPow2(46), BigPow2(47)}

ModulusSearchWideStep ==
    /\ unit = IdleUnit
    /\ \E level \in WideLevels :
           unit' = [op |-> "ModulusSearchWide", in |-> level,
                    out |-> ModulusSearchWide(level)]
    /\ UNCHANGED <<kemVars, regVars>>

\* the generators built: bitSize 3 to 5, nthRoot 1, 2, 4 and 16
GeneratorShapes == {[bitSize |-> b, nthRoot |-> r] : b \in 3..5, r \in {1, 2, 4, 16}}

\* a generator with the results of the calls made on it, per direction
NewGeneratorStep ==
    /\ unit = IdleUnit
    /\ \E shape \in GeneratorShapes :
           unit' = [op |-> "generator", in |-> shape,
                    out |-> [g |-> NewBigNTTFriendlyPrimesGenerator(
                                       shape.bitSize, BigFromInt(shape.nthRoot)),
                             up |-> <<>>, down |-> <<>>]]
    /\ UNCHANGED <<kemVars, regVars>>

NextUpstreamPrimeStep ==
    /\ unit.op = "generator"
    /\ Len(unit.out.up) < MaxPrimeCalls
    /\ LET r == NextUpstreamPrime(unit.out.g)
       IN  unit' = [unit EXCEPT !.out.g = AfterUpstream(unit.out.g, r),
                                !.out.up = Append(@, [val |-> r.val, err |-> r.err])]
    /\ UNCHANGED <<kemVars, regVars>>

NextDownstreamPrimeStep ==
    /\ unit.op = "generator"
    /\ Len(unit.out.down) < MaxPrimeCalls
    /\ LET r == NextDownstreamPrime(unit.out.g)
       IN  unit' = [unit EXCEPT !.out.g = AfterDownstream(unit.out.g, r),
                                !.out.down = Append(@, [val |-> r.val, err |-> r.err])]
    /\ UNCHANGED <<kemVars, regVars>>

UnitNext ==
    \/ CalculateParametersStep
    \/ ModulusSearchStep
    \/ ModulusSearchWideStep
    \/ ValidateStep
    \/ NoisyBitStep
    \/ ParsePublicKeyBytesStep
    \/ ParsePrivateKeyBytesStep
    \/ NewGeneratorStep
    \/ NextUpstreamPrimeStep
    \/ NextDownstreamPrimeStep
    \/ ExpandSeedStep
    \/ RoundVectorStep

UnitSpec == UnitInit /\ [][UnitNext]_vars

-----------------------------------------------------------------------------
(* pkg/arithmetic on its own: a caller holds a vector v and a matrix m     *)
(* built for one modulus, the scalar and the bytes the last calls          *)
(* returned, and applies one operation after the other.                    *)

AlgebraModuli == {97, 257}

\* no bytes marshalled yet
NoData == [bytes |-> <<>>, err |-> NoErr, kind |-> "none", of |-> <<>>]

AlgebraInit ==
    /\ KemIdle
    /\ RegistryIdle
    /\ \E q \in AlgebraModuli :
           unit = [op |-> "New", in |-> q,
                   out |-> [v |-> NewVector(2, q), m |-> NewMatrix(2, 2, q),
                            scalar |-> 0, data |-> NoData, ops |-> 0]]

\* another operation may be applied
AlgebraReady == unit.out.ops < MaxOps

\* the call op(in) has returned and left out
AlgebraDone(op, in, out) ==
    /\ unit' = [op |-> op, in |-> in, out |-> [out EXCEPT !.ops = unit.out.ops + 1]]
    /\ UNCHANGED <<kemVars, regVars>>

\* the big.Int values a caller passes: negative, small, the modulus, above it
ValuesPassed(q) == {-1, 5, q, q + 3}

\* the row i of the matrix as a vector
RowVector(m, i) == [Values |-> m.Values[i], Modulus |-> m.Modulus]

\* the other operand of a vector operation: v itself or a row of m
OtherOperands == {unit.out.v} \cup {RowVector(unit.out.m, i) : i \in 1..unit.out.m.Rows}

VectorSetStep ==
    /\ AlgebraReady
    /\ \E index \in 0..(VecLength(unit.out.v) - 1), value \in ValuesPassed(unit.out.v.Modulus) :
           AlgebraDone("Vector.Set", <<index, value>>,
                       [unit.out EXCEPT !.v = VecSet(unit.out.v, index, value)])

\* the result of a call that returns (value, error): the value replaces old
\* unless the call failed
Returned(old, r) == IF r.err = NoErr THEN r.val ELSE old

VectorAddStep ==
    /\ AlgebraReady
    /\ \E other \in OtherOperands :
           AlgebraDone("Vector.Add", other,
                       [unit.out EXCEPT !.v = Returned(@, VecAdd(unit.out.v, other))])

VectorSubtractStep ==
    /\ AlgebraReady
    /\ \E other \in OtherOperands :
           AlgebraDone("Vector.Subtract", other,
                       [unit.out EXCEPT !.v = Returned(@, VecSubtract(unit.out.v, other))])

ScalarMultiplyStep ==
    /\ AlgebraReady
    /\ \E scalar \in {-2, 3} :
           AlgebraDone("Vector.ScalarMultiply", scalar,
                       [unit.out EXCEPT !.v = VecScalarMultiply(unit.out.v, scalar)])

DotProductStep ==
    /\ AlgebraReady
    /\ \E other \in OtherOperands :
           AlgebraDone("Vector.DotProduct", other,
                       [unit.out EXCEPT !.scalar = Returned(@, VecDotProduct(unit.out.v, other))])

SumStep ==
    /\ AlgebraReady
    /\ AlgebraDone("Vector.Sum", <<>>, [unit.out EXCEPT !.scalar = VecSum(unit.out.v)])

MatrixSetStep ==
    /\ AlgebraReady
    /\ \E row \in 0..(unit.out.m.Rows - 1), col \in 0..(unit.out.m.Cols - 1),
          value \in {-1, unit.out.m.Modulus + 3} :
           AlgebraDone("Matrix.Set", <<row, col, value>>,
                       [unit.out EXCEPT !.m = MatSet(unit.out.m, row, col, value)])

TransposeStep ==
    /\ AlgebraReady
    /\ AlgebraDone("Matrix.Transpose", <<>>, [unit.out EXCEPT !.m = MatTranspose(unit.out.m)])

MultiplyStep ==
    /\ AlgebraReady
    /\ AlgebraDone("Matrix.Multiply", unit.out.m,
                   [unit.out EXCEPT !.m = Returned(@, MatMultiply(unit.out.m, unit.out.m))])

MultiplyVectorStep ==
    /\ AlgebraReady
    /\ AlgebraDone("Matrix.MultiplyVector", unit.out.v,
                   [unit.out EXCEPT !.v = Returned(@, MatMultiplyVector(unit.out.m, unit.out.v))])

\* the readers handed to the random generation: bytes that rand accepts and
\* bytes it rejects, for either modulus
RandStreams ==
    { <<200, 97, 96, 224, 5, 130, 1, 255, 3, 0>>,
      <<129, 0, 1, 1, 0, 7, 255, 255, 128, 255, 0, 0>>,
      <<255>> }

RandomVectorStep ==
    /\ AlgebraReady
    /\ \E stream \in RandStreams :
           AlgebraDone("GenerateRandomVector", stream,
                       [unit.out EXCEPT !.v = Returned(@,
                            GenerateRandomVector(2, unit.out.v.Modulus, stream))])

RandomMatrixStep ==
    /\ AlgebraReady
    /\ \E stream \in RandStreams :
           AlgebraDone("GenerateRandomMatrix", stream,
                       [unit.out EXCEPT !.m = Returned(@,
                            GenerateRandomMatrix(2, 2, unit.out.m.Modulus, stream))])

SampleDVectorStep ==
    /\ AlgebraReady
    /\ \E rho \in {<<1>>, <<2>>}, length \in {2, 16} :
           AlgebraDone("GenerateSampleDVector", <<length, rho>>,
                       [unit.out EXCEPT !.v = Returned(@,
                            GenerateSampleDVector(length, 2, rho, unit.out.v.Modulus))])

\* vectors a caller builds field by field: elements below the modulus, an
\* element that is the modulus, an element of one byte more than elementSize
LiteralVectors(q) ==
    {[Values |-> vals, Modulus |-> q] :
         vals \in {<<q - 1, 0>>, <<q, 1>>, <<1, Pow2(8 * ElementSize(q))>>}}

VectorMarshalStep ==
    /\ AlgebraReady
    /\ \E v \in {unit.out.v} \cup LiteralVectors(unit.out.v.Modulus) :
           AlgebraDone("Vector.MarshalBinary", v,
                       [unit.out EXCEPT !.data =
                            [bytes |-> VecMarshalBinary(v).data,
                             err |-> VecMarshalBinary(v).err,
                             kind |-> "vector", of |-> v]])

\* a matrix a caller builds field by field, with an element of one byte more
\* than elementSize
LiteralMatrices(q) ==
    {[Rows |-> 1, Cols |-> 2, Values |-> <<<<1, Pow2(8 * ElementSize(q))>>>>,
      Modulus |-> q]}

MatrixMarshalStep ==
    /\ AlgebraReady
    /\ \E m \in {unit.out.m} \cup LiteralMatrices(unit.out.m.Modulus) :
           AlgebraDone("Matrix.MarshalBinary", m,
                       [unit.out EXCEPT !.data =
                            [bytes |-> MatMarshalBinary(m).data,
                             err |-> MatMarshalBinary(m).err,
                             kind |-> "matrix", of |-> m]])

\* raw elements of elementSize bytes: all bits set, the modulus, the modulus
\* less one
RawElements(q) ==
    { MakeSlice([i \in 1..ElementSize(q) |-> 255]),
      PaddedElement(q, ElementSize(q)),
      PaddedElement(q - 1, ElementSize(q)) }

\* the bytes decoded: those marshalled last, or a length and raw elements
VectorBytes(q) ==
    {unit.out.data.bytes}
    \cup {PutUint32(2) \o a \o b : a, b \in RawElements(q)}
    \cup {PutUint32(1) \o a : a \in RawElements(q)}
    \cup {PutUint32(3) \o a : a \in RawElements(q)}

MatrixBytes(q) ==
    {unit.out.data.bytes}
    \cup {PutUint32(1) \o PutUint32(2) \o a \o b : a, b \in RawElements(q)}

\* UnmarshalBinary with v (or m) as the receiver; on an error the receiver
\* is as it was
VectorUnmarshalStep ==
    /\ AlgebraReady
    /\ \E data \in VectorBytes(unit.out.v.Modulus) :
           AlgebraDone("Vector.UnmarshalBinary", data,
                       [unit.out EXCEPT !.v = VecUnmarshalBinary(unit.out.v, data).val])

MatrixUnmarshalStep ==
    /\ AlgebraReady
    /\ \E data \in MatrixBytes(unit.out.m.Modulus) :
           AlgebraDone("Matrix.UnmarshalBinary", data,
                       [unit.out EXCEPT !.m = MatUnmarshalBinary(unit.out.m, data).val])

AlgebraNext ==
    \/ VectorSetStep
    \/ VectorAddStep
    \/ VectorSubtractStep
    \/ ScalarMultiplyStep
    \/ DotProductStep
    \/ SumStep
    \/ MatrixSetStep
    \/ TransposeStep
    \/ MultiplyStep
    \/ MultiplyVectorStep
    \/ RandomVectorStep
    \/ RandomMatrixStep
    \/ SampleDVectorStep
    \/ VectorMarshalStep
    \/ MatrixMarshalStep
    \/ VectorUnmarshalStep
    \/ MatrixUnmarshalStep

AlgebraSpec == AlgebraInit /\ [][AlgebraNext]_vars

-----------------------------------------------------------------------------
(* The layout of a ciphertext c0 || c1 || encode(x) || encode(hatH0) ||     *)
(* encode(hatH1) as the specification gives it, for the parameters of the  *)
(* run.  Positions are counted from 1.                                     *)

CbBytes == params.Lambda \div 8
XBytes == 4 + params.M * ElementSize(params.Q)
HBytes == 4 + params.Lambda * ElementSize(params.Q)

\* ciphertextBytes = 2*(lambda/8) + xSize + 2*hSize
CiphertextBytes == 2 * CbBytes + XBytes + 2 * HBytes

\* publicKeyBytes and privateKeyBytes of the specification
PublicKeyBytesSpec ==
    (8 + params.N * params.M * ElementSize(params.Q))
      + 2 * (8 + params.N * params.Lambda * ElementSize(params.Q))
PrivateKeyBytesSpec == (8 + params.M * params.Lambda * ElementSize(params.Q)) + 1

InC0(pos) == pos \in 1..CbBytes
InX(pos) == pos \in (2 * CbBytes + 1)..(2 * CbBytes + XBytes)
InXPrefix(pos) == pos \in (2 * CbBytes + 1)..(2 * CbBytes + 4)
InXElements(pos) == pos \in (2 * CbBytes + 5)..(2 * CbBytes + XBytes)
InHatH0Prefix(pos) ==
    pos \in (2 * CbBytes + XBytes + 1)..(2 * CbBytes + XBytes + 4)
InHatH1Prefix(pos) ==
    pos \in (2 * CbBytes + XBytes + HBytes + 1)..(2 * CbBytes + XBytes + HBytes + 4)
InLengthPrefix(pos) == InXPrefix(pos) \/ InHatH0Prefix(pos) \/ InHatH1Prefix(pos)

\* Decapsulate was called with the generated private key on a ciphertext of
\* Encapsulate(pk) with one bit flipped
FlippedBit == dec.done /\ dec.with = "generated" /\ edit.op = "flip"

AllFourHold == dec.xOK /\ dec.cnbOK /\ dec.hbOK /\ dec.hatHnbOK

-----------------------------------------------------------------------------
(* The claims.                                                             *)

\* C1: Consistency.  For a key pair (pk, sk) returned by GenerateKeyPair and
\* (ct, ss1) returned by Encapsulate(pk), Decapsulate(sk, ct) returns no
\* error and a shared secret equal to ss1.
C1_Consistency ==
    dec.done /\ enc.with = "generated" /\ dec.with = "generated" /\ edit = NoEdit
        => dec.err = NoErr /\ dec.ss = enc.ss

C1_Witness ==
    /\ dec.done /\ enc.with = "generated" /\ dec.with = "generated" /\ edit = NoEdit
    /\ genErr = NoErr /\ Validate(params) = NoErr
    /\ wire = enc.ct
    /\ dec.err = NoErr /\ dec.ss = enc.ss /\ Len(dec.ss) = params.Lambda \div 8

\* C2 as it is stated: flipping any single bit inside the c0 field or inside
\* the x field of a ciphertext makes Decapsulate fail with DecapsulationFailed;
\* it returns no shared secret and no other error kind.
C2_AnyBitOfC0OrX ==
    FlippedBit /\ (InC0(edit.pos) \/ InX(edit.pos))
        => dec.err = ErrDecapsulationFailed /\ dec.ss = <<>>

\* C2, amended: flipping any single bit inside the c0 field or inside the
\* element bytes of the x field (the bytes behind its 4-byte length prefix)
\* makes Decapsulate fail with DecapsulationFailed; it returns no shared
\* secret and no other error kind.
C2_TamperRejection ==
    FlippedBit /\ (InC0(edit.pos) \/ InXElements(edit.pos))
        => dec.err = ErrDecapsulationFailed /\ dec.ss = <<>>

C2_Witness ==
    /\ FlippedBit /\ InXElements(edit.pos)
    /\ wire # enc.ct
    /\ dec.stage = "checks"
    /\ dec.err = ErrDecapsulationFailed /\ dec.ss = <<>>

\* C3: Decapsulate returns InvalidCiphertext for every ciphertext whose byte
\* length differs from ciphertextBytes, shorter or longer; no input of the
\* wrong length yields a shared secret.
C3_WrongLengthRejected ==
    dec.done /\ dec.with = "generated" /\ Len(wire) # CiphertextBytes
        => dec.err.kind = "InvalidCiphertext" /\ dec.ss = <<>>

\* C4: Decapsulate rejects with InvalidCiphertext every ciphertext in which
\* the 4-byte length prefix of encode(x), encode(hatH0) or encode(hatH1)
\* differs from m, lambda, lambda; such an input never reaches the lattice
\* computation and produces no other error kind.
C4_PrefixMismatchRejected ==
    FlippedBit /\ InLengthPrefix(edit.pos)
        => dec.err.kind = "InvalidCiphertext" /\ dec.stage = "parse"

\* C5: Decapsulate returns a shared secret only if all four predicates hold
\* for the recovered seed; if any one of them is false the result is
\* DecapsulationFailed.
C5_SecretOnlyIfAllChecks ==
    dec.done =>
        /\ dec.ss # <<>> => dec.stage = "checks" /\ AllFourHold
        /\ dec.stage = "checks" /\ ~AllFourHold
               => dec.err = ErrDecapsulationFailed /\ dec.ss = <<>>

C5_Witness ==
    /\ dec.done /\ dec.stage = "checks"
    /\ dec.xOK /\ dec.cnbOK /\ dec.hbOK /\ ~dec.hatHnbOK
    /\ dec.err = ErrDecapsulationFailed /\ dec.ss = <<>>

\* what Decapsulate returns for the ciphertext with the lowest bit of its
\* first byte flipped: the second ciphertext of a comparison
C6_Other == FacadeDecapsulate(sk, ApplyEdit(enc.ct, FlipEdit(1, 0)))

\* the ciphertext of the run fails the four checks
C6_Fails == dec.done /\ dec.with = "generated" /\ dec.stage = "checks" /\ dec.err # NoErr

\* C6: Failure indistinguishability.  Two ciphertexts that fail different
\* ones of the four checks make Decapsulate return the identical single
\* error value DecapsulationFailed and a nil secret.
C6_FailureIndistinguishable ==
    C6_Fails =>
        LET other == C6_Other
        IN  other.stage = "checks" /\ other.err # NoErr
                => /\ dec.err = other.err
                   /\ dec.ss = other.ss
                   /\ dec.err = ErrDecapsulationFailed
                   /\ dec.ss = <<>>

C6_Witness ==
    /\ C6_Fails
    /\ dec.xOK /\ ~dec.hatHnbOK
    /\ LET other == C6_Other
       IN  /\ other.stage = "checks" /\ other.err # NoErr
           /\ ~other.xOK
           /\ dec.err = other.err

\* C7: Key round-trip.  ParsePublicKey(pk.Bytes(), params) returns a key Equal
\* to pk, ParsePrivateKey(sk.Bytes(), pk) returns a key Equal to sk (same Zb,
\* same b), and Encapsulate with the parsed public key followed by
\* Decapsulate with the parsed private key yields equal shared secrets.
C7_KeyRoundTrip ==
    /\ parsedPk.done /\ parsedPk.with = "params"
           => parsedPk.err = NoErr /\ PublicKeyEqual(parsedPk.key, pk)
    /\ parsedSk.done /\ parsedSk.with = "parsed"
           => /\ parsedSk.err = NoErr
              /\ PrivateKeyEqual(parsedSk.key, sk)
              /\ parsedSk.key.zb = sk.zb
              /\ parsedSk.key.b = sk.b
    /\ dec.done /\ enc.with = "parsed" /\ dec.with = "parsed" /\ edit = NoEdit
           => dec.err = NoErr /\ dec.ss = enc.ss

C7_Witness ==
    /\ dec.done /\ enc.with = "parsed" /\ dec.with = "parsed" /\ edit = NoEdit
    /\ PublicKeyEqual(parsedPk.key, pk) /\ PrivateKeyEqual(parsedSk.key, sk)
    /\ ElementSize(params.Q) = 2
    /\ dec.err = NoErr /\ dec.ss = enc.ss /\ dec.ss # <<>>

\* C8: Serialized key sizes.  len(pk.Bytes()) equals the parameter set's
\* PublicKeySize = (8 + n*m*elSize) + 2*(8 + n*lambda*elSize), and
\* len(sk.Bytes()) equals the parameter set's PrivateKeySize =
\* (8 + m*lambda*elSize) + 1.
C8_KeySizes ==
    /\ pkBytes.done /\ pkBytes.err = NoErr
           => /\ Len(pkBytes.data) = params.KeyPublicKeySize
              /\ params.KeyPublicKeySize = PublicKeyBytesSpec
    /\ skBytes.done /\ skBytes.err = NoErr
           => /\ Len(skBytes.data) = params.KeyPrivateKeySize
              /\ params.KeyPrivateKeySize = PrivateKeyBytesSpec

\* C9: Ciphertext and secret sizes.  Every ciphertext returned by Encapsulate
\* has length equal to the parameter set's CiphertextSize = 2*(lambda/8) +
\* (4 + m*elSize) + 2*(4 + lambda*elSize), and every shared secret returned
\* by Encapsulate or Decapsulate has length SharedKeySize = lambda/8.
C9_CiphertextAndSecretSizes ==
    /\ enc.done /\ enc.err = NoErr
           => /\ Len(enc.ct) = params.KeyCiphertextSize
              /\ params.KeyCiphertextSize = CiphertextBytes
              /\ Len(enc.ss) = params.KeySharedKeySize
              /\ params.KeySharedKeySize = params.Lambda \div 8
    /\ dec.done /\ dec.err = NoErr => Len(dec.ss) = params.KeySharedKeySize

\* C10: Absent inputs at the facade.  Encapsulate(nil) returns
\* InvalidPublicKey; Decapsulate with a nil private key or with a private key
\* whose public-key back-reference is nil returns InvalidPrivateKey;
\* ParsePrivateKey(data, nil) returns InvalidPublicKey; ParsePublicKey(data,
\* nil) returns ParameterValidation; none of them panics or returns a key or
\* a secret.
C10_AbsentInputsRejected ==
    /\ enc.done /\ enc.with = "nil"
           => enc.err.kind = "InvalidPublicKey" /\ enc.ct = <<>> /\ enc.ss = <<>>
    /\ dec.done /\ dec.with \in {"nil", "nilPk"}
           => dec.err.kind = "InvalidPrivateKey" /\ dec.ss = <<>>
    /\ parsedSk.done /\ parsedSk.with = "nil"
           => parsedSk.err.kind = "InvalidPublicKey" /\ parsedSk.key = NilSK
    /\ parsedPk.done /\ parsedPk.with = "nil"
           => parsedPk.err.kind = "ParameterValidation" /\ parsedPk.key = NilPK

C10_Witness ==
    /\ dec.done /\ dec.with = "nilPk"
    /\ sk # NilSK
    /\ dec.err.kind = "InvalidPrivateKey" /\ dec.ss = <<>>

\* C11: Truncated keys are rejected.  Parsing a serialized public key or
\* private key with its last bytes removed fails with a Deserialization error
\* and returns no key; so does decoding a vector or a matrix from a buffer
\* shorter than its declared dimensions require.
C11_TruncatedRejected ==
    /\ parsedPk.done /\ parsedPk.with = "truncated"
           => parsedPk.err.kind = "Deserialization" /\ parsedPk.key = NilPK
    /\ parsedSk.done /\ parsedSk.with = "truncated"
           => parsedSk.err.kind = "Deserialization" /\ parsedSk.key = NilSK
    /\ dec.done /\ edit.op = "cut"
           => VecUnmarshalBinary(NewVector(params.Lambda, params.Q),
                                 SubSeq(wire, 2 * CbBytes + XBytes + HBytes + 1,
                                        Len(wire))).err.kind = "Deserialization"
    /\ pkBytes.done /\ pkBytes.err = NoErr
           => \A k \in 1..MaxCut :
                  MatUnmarshalBinary(NewMatrix(params.N, params.M, params.Q),
                                     Truncate(MatMarshalBinary(pk.a).data, k)).err.kind
                      = "Deserialization"

C11_Witness ==
    /\ parsedSk.done /\ parsedSk.with = "truncated" /\ parsedSk.cut = 1
    /\ Len(skBytes.data) = PrivateKeyBytesSpec
    /\ parsedPk.err = NoErr
    /\ parsedSk.err.kind = "Deserialization" /\ parsedSk.key = NilSK


\* the names init() registers
SeededNames == {ParameterSetName(16), ParameterSetName(32), ParameterSetName(64)}

\* C12: after package initialisation, and until a caller writes, the registry
\* holds exactly the entries OWChCCA-16, OWChCCA-32 and OWChCCA-64, each the
\* parameter set of its level; GetDefaultParameterSet returns the OWChCCA-16
\* entry; GetParameterSet returns the registered value without error for
\* each of these names and an error for any other name.
C12_RegistryAfterInit ==
    phase = "init" =>
        /\ DOMAIN registry.paramSets = SeededNames
        /\ SeededNames = {"OWChCCA-16", "OWChCCA-32", "OWChCCA-64"}
        /\ \A level \in {16, 32, 64} :
               /\ registry.paramSets[ParameterSetName(level)].Name = ParameterSetName(level)
               /\ registry.paramSets[ParameterSetName(level)].SecurityLevel = level
        /\ GetDefaultParameterSet(registry) = registry.paramSets["OWChCCA-16"]
        /\ \A nm \in SeededNames \cup QueryNames :
               IF nm \in SeededNames
               THEN GetParameterSet(registry, nm)
                        = [val |-> registry.paramSets[nm], err |-> NoErr]
               ELSE GetParameterSet(registry, nm).err # NoErr
        /\ \A p \in Procs :
               calls[p].pc = "done" =>
                   /\ calls[p].op = "GetDefault"
                          => calls[p].res.val = registry.paramSets["OWChCCA-16"]
                   /\ calls[p].op = "Get" /\ calls[p].name \in SeededNames
                          => /\ calls[p].res.val = registry.paramSets[calls[p].name]
                             /\ calls[p].res.err = NoErr
                   /\ calls[p].op = "Get" /\ calls[p].name \notin SeededNames
                          => calls[p].res.err # NoErr

\* C12 witness: before any caller wrote, one goroutine got the default set
\* and another asked for a name that was never registered
C12_Witness ==
    /\ phase = "init"
    /\ \E p, q \in Procs :
           /\ calls[p].pc = "done"
           /\ calls[p].op = "GetDefault"
           /\ calls[p].res.val.Name = "OWChCCA-16"
           /\ calls[p].res.val.SecurityLevel = 16
           /\ calls[q].pc = "done"
           /\ calls[q].op = "Get"
           /\ calls[q].name = "OWChCCA-128"
           /\ calls[q].res.err = NotFound("OWChCCA-128")

\* the goroutine is between taking the lock and releasing it
InBody(p) == calls[p].pc \in {"body", "write", "read", "unlock"}

\* what a finished read returned is what the function yields on the registry
\* value reg
ReadResultOn(p, reg) ==
    /\ calls[p].op = "Get"
           => /\ calls[p].res.val = GetParameterSet(reg, calls[p].name).val
              /\ calls[p].res.err = GetParameterSet(reg, calls[p].name).err
    /\ calls[p].op = "GetDefault"
           => calls[p].res.val = GetDefaultParameterSet(reg)
    /\ calls[p].op = "List"
           => IsListing(calls[p].res.names, reg)

\* C13: under every interleaving of the registry calls, a goroutine is in the
\* body of a writing call only while it holds the lock exclusively and in
\* the body of a reading call only while it holds the lock shared; a
\* goroutine outside a body holds no lock; the registry does not change
\* while a reader is in its body, and what a reader returned is the result
\* of its function on the registry as it was when the reader took the lock,
\* which is the value before or after each write, never one in between.
C13_ReaderWriterDiscipline ==
    /\ mu.w # 0 => mu.r = {}
    /\ \A p \in Procs :
           /\ InBody(p) /\ calls[p].op \in Writers => mu.w = p
           /\ InBody(p) /\ calls[p].op \in Readers => p \in mu.r /\ mu.w = 0
           /\ ~InBody(p) => mu.w # p /\ p \notin mu.r
           /\ InBody(p) /\ calls[p].op \in Readers => registry = calls[p].snap
           /\ calls[p].pc = "done" /\ calls[p].op \in Readers
                  => ReadResultOn(p, calls[p].snap)

\* C13 witness: after a caller's write, a writer waits for the lock while a
\* reader that has read the default name is still in its body
C13_Witness ==
    /\ phase = "changed"
    /\ \E p, q \in Procs :
           /\ calls[p].op \in Writers
           /\ calls[p].pc = "lock"
           /\ calls[q].op = "GetDefault"
           /\ calls[q].pc = "read"
           /\ q \in mu.r

\* C14: for each default level 16, 32 and 64, Validate succeeds on the
\* parameter set CalculateParameters returns, and the PublicKeySize,
\* PrivateKeySize and CiphertextSize of that set are strictly positive, as
\* methods and as the KeyParams fields.
C14_DefaultLevelsValid ==
    unit.op = "CalculateParameters" /\ unit.in \in DefaultLevels =>
        /\ unit.out.err = NoErr
        /\ unit.out.param.KeyPublicKeySize > 0
        /\ unit.out.param.KeyPrivateKeySize > 0
        /\ unit.out.param.KeyCiphertextSize > 0
        /\ PublicKeySize(unit.out.param) > 0
        /\ PrivateKeySize(unit.out.param) > 0
        /\ CiphertextSize(unit.out.param) > 0

\* C14 witness: the level-64 set came back with a 61-bit modulus, m = 32768
\* and a public key of 128 MiB and more
C14_Witness ==
    /\ unit.op = "CalculateParameters"
    /\ unit.in = 64
    /\ unit.out.param.N = 512
    /\ unit.out.param.M = 32768
    /\ BigBitLen(unit.out.param.QBig) = 61
    /\ unit.out.param.KeyPublicKeySize > 134217728
    /\ unit.out.err = NoErr

RECURSIVE DotUpTo(_, _, _, _, _)
DotUpTo(a, zb, i, j, k) ==
    IF k = 0 THEN 0 ELSE DotUpTo(a, zb, i, j, k - 1) + a.Values[i][k] * zb.Values[k][j]

\* the matrix u is the product A * Zb mod q
IsProduct(u, a, zb) ==
    /\ u.Rows = a.Rows
    /\ u.Cols = zb.Cols
    /\ \A i \in 1..a.Rows : \A j \in 1..zb.Cols :
           u.Values[i][j] = DotUpTo(a, zb, i, j, a.Cols) % a.Modulus

\* the matrix u is a uniform sample of its own, drawn after A and Zb
IsFreshUniform(u, a, zb) ==
    \E k \in 0..MaxKeySeed :
        /\ a = UniformMatrix(a.Rows, a.Cols, a.Modulus, k)
        /\ zb = GaussianMatrix(zb.Rows, zb.Cols, zb.Modulus, k)
        /\ u = UniformMatrix(a.Rows, zb.Cols, a.Modulus, k + 3)

\* C16: in every key pair GenerateKeyPair returned, with b = 0 the matrix U0
\* is A * Zb mod q and U1 is the separately sampled uniform matrix, with
\* b = 1 U1 is A * Zb mod q and U0 the uniform matrix; the uniform one is
\* not the product.
C16_DualBranchKeys ==
    ~sk.nil /\ ~pk.nil =>
        /\ ~sk.b => /\ IsProduct(pk.u0, pk.a, sk.zb)
                    /\ IsFreshUniform(pk.u1, pk.a, sk.zb)
                    /\ ~IsProduct(pk.u1, pk.a, sk.zb)
        /\ sk.b => /\ IsProduct(pk.u1, pk.a, sk.zb)
                   /\ IsFreshUniform(pk.u0, pk.a, sk.zb)
                   /\ ~IsProduct(pk.u0, pk.a, sk.zb)

\* C16 witness: a key pair with b = 1 whose U1 is the product and whose U0
\* is not
C16_Witness ==
    /\ ~sk.nil
    /\ ~pk.nil
    /\ sk.b
    /\ IsProduct(pk.u1, pk.a, sk.zb)
    /\ ~IsProduct(pk.u0, pk.a, sk.zb)
    /\ pk.u0 # pk.u1

\* the bytes expandSeed squeezes for the call recorded in unit
SqueezedStream ==
    Sha3Read512(Sha3Sum256(unit.in.seed),
                (unit.in.n * (unit.in.logEta + 1)) \div 8 + 3 * (unit.in.lambda \div 8))

\* the segments of the stream: s, rho, h0, h1 in that order
SSegment == SubSeq(SqueezedStream, 1, (unit.in.n * (unit.in.logEta + 1)) \div 8)

H0Segment ==
    SubSeq(SqueezedStream,
           Len(SSegment) + (unit.in.lambda \div 8) + 1,
           Len(SSegment) + 2 * (unit.in.lambda \div 8))

H1Segment ==
    SubSeq(SqueezedStream,
           Len(SSegment) + 2 * (unit.in.lambda \div 8) + 1,
           Len(SSegment) + 3 * (unit.in.lambda \div 8))

\* bit (i mod 8) of byte i div 8 of a segment, i counted from 0
StreamBit(segment, i) == (segment[(i \div 8) + 1] \div Pow2(i % 8)) % 2

\* C17: for every seed and every index i below lambda, h0[i] returned by
\* expandSeed is bit (i mod 8) of byte i div 8 of the h0 segment of the
\* squeezed stream, and h1[i] the same bit of the h1 segment: the vectors
\* hold 1 exactly where the stream bit is set.
C17_BinaryVectorsFollowStream ==
    unit.op = "expandSeed" =>
        \A i \in 0..(unit.in.lambda - 1) :
            /\ unit.out.first.h0.Values[i + 1] = StreamBit(H0Segment, i)
            /\ unit.out.first.h1.Values[i + 1] = StreamBit(H1Segment, i)

\* the unsigned integer of the w bits of a segment from bit p on: within a
\* byte the bit at the lower position is the less significant one; of two
\* parts in successive bytes the part from the earlier byte is the upper one
RECURSIVE GroupValue(_, _, _)
GroupValue(segment, p, w) ==
    IF w = 0 THEN 0
    ELSE LET c == Min(8 - (p % 8), w)
             part == (segment[(p \div 8) + 1] \div Pow2(p % 8)) % Pow2(c)
         IN  part * Pow2(w - c) + GroupValue(segment, p + c, w - c)

\* C18: for every index i below n, s[i] returned by expandSeed is the
\* unsigned integer of the logEta+1 bits of the s segment that start at bit
\* i*(logEta+1), so that every value from 0 to 2^(logEta+1) - 1 occurs for
\* its bit group and two different bit groups never yield the same s[i].
C18_SFollowsBitGroups ==
    unit.op = "expandSeed" =>
        /\ \A i \in 0..(unit.in.n - 1) :
               unit.out.first.s.Values[i + 1]
                   = GroupValue(SSegment, i * (unit.in.logEta + 1), unit.in.logEta + 1)
        /\ \A i, j \in 0..(unit.in.n - 1) :
               GroupValue(SSegment, i * (unit.in.logEta + 1), unit.in.logEta + 1)
                   # GroupValue(SSegment, j * (unit.in.logEta + 1), unit.in.logEta + 1)
               => unit.out.first.s.Values[i + 1] # unit.out.first.s.Values[j + 1]

\* the distance of v to 0 round the circle Z_q, and its distance to q div 2
DistToZero(v, q) == Min(v, q - v)

DistToHalfQ(v, q) == IF v >= q \div 2 THEN v - (q \div 2) ELSE (q \div 2) - v

\* C19: for every element v in [0, q) of the vector Decapsulate rounds, the
\* element of hbPrime is 0 if v is at most as far from 0 as from q div 2
\* and 1 otherwise.
C19_RoundsToNearest ==
    unit.op = "roundVector" =>
        \A i \in 1..Len(unit.in.Values) :
            unit.out.Values[i] =
                IF DistToZero(unit.in.Values[i], unit.in.Modulus)
                       <= DistToHalfQ(unit.in.Values[i], unit.in.Modulus)
                THEN 0 ELSE 1

\* x limited to the range lo..hi
Clamp(x, lo, hi) == IF x < lo THEN lo ELSE IF x > hi THEN hi ELSE x

\* C20: for the m the loop of CalculateParameters works on, logQ is m/(2n)
\* limited to the range 60..62, and the prime search is run with
\* bitSize = logQ + 1 and nthRoot = 2m.
C20_LogQClamped ==
    /\ unit.op = "ModulusSearch" =>
           /\ unit.out.logQ = Clamp(unit.out.m \div (2 * unit.out.n), 60, 62)
           /\ unit.out.generator.BitSize = unit.out.logQ + 1
           /\ unit.out.generator.NthRoot = BigFromInt(2 * unit.out.m)
    /\ unit.op = "CalculateParameters" =>
           unit.out.param.LogQ
               = Clamp(unit.out.param.M \div (2 * unit.out.param.N), 60, 62)

\* the powers of two from 2^lo to 2^hi
PowersOfTwo(lo, hi) == {Pow2(k) : k \in lo..hi}

\* C21: CalculateParameters returns the first power of two m in
\* [2^ceil(log2(6 n logN)), 2^ceil(log2(7 n logN))] whose prime search
\* succeeds, with that prime q = 1 mod 2m; when no m of the range yields a
\* prime the failure is reported, no parameter set is produced and the call
\* does not panic.
C21_SearchWithinRange ==
    /\ unit.op = "ModulusSearch" =>
           LET n == unit.out.n
               lo == CeilLog2(6 * n * CeilLog2(n))
               hi == CeilLog2(7 * n * CeilLog2(n))
           IN  unit.out.outcome = "found" =>
                   /\ unit.out.m \in PowersOfTwo(lo, hi)
                   /\ BigMod(unit.out.q, BigFromInt(2 * unit.out.m)) = <<1>>
                   /\ ProbablyPrime(unit.out.q)
                   /\ \A m \in PowersOfTwo(lo, hi) :
                          m < unit.out.m
                          => NextDownstreamPrime(GeneratorFor(n, m)).err # NoErr
    /\ unit.op = "ModulusSearchWide" =>
           /\ unit.out.err.kind # "panic"
           /\ unit.out.outcome = "found" =>
                  BigMod(unit.out.q, BigMulSmall(unit.out.m, 2)) = <<1>>
           /\ unit.out.outcome # "found" => unit.out.err.kind = "PrimeExhausted"

\* the results of the calls made on the generator, values as integers
UpResults == unit.out.up

DownResults == unit.out.down

Succeeded(results, i) == results[i].err = NoErr

ValueOf(results, i) == BigToInt(results[i].val)

\* the values returned by the calls before call i
ReturnedBefore(results, i) ==
    {ValueOf(results, j) : j \in {j \in 1..(i - 1) : Succeeded(results, j)}}

\* the primes the upstream candidates of call i can still reach below
\* 2^(bitSize+1), and the downstream candidates from 2^(bitSize-1) on
UpPrimesLeft(i) ==
    {p \in (Pow2(unit.in.bitSize) + 1)..(Pow2(unit.in.bitSize + 1) - 1) :
         /\ IsPrime(p)
         /\ (p - Pow2(unit.in.bitSize) - 1) % unit.in.nthRoot = 0
         /\ \A v \in ReturnedBefore(UpResults, i) : p > v}

DownPrimesLeft(i) ==
    {p \in Pow2(unit.in.bitSize - 1)..Pow2(unit.in.bitSize) :
         /\ IsPrime(p)
         /\ (Pow2(unit.in.bitSize) + 1 - p) % unit.in.nthRoot = 0
         /\ \A v \in ReturnedBefore(DownResults, i) : p < v}

VectorInRange(v) == \A i \in 1..VecLength(v) : v.Values[i] \in 0..(v.Modulus - 1)

MatrixInRange(m) ==
    \A i \in 1..m.Rows : \A j \in 1..m.Cols : m.Values[i][j] \in 0..(m.Modulus - 1)

\* C23: after any sequence of vector and matrix operations on operands built
\* for the modulus q, every stored element and every returned scalar lies in
\* [0, q), and what is decoded is each raw big-endian integer reduced mod q.
C23_ElementsInRange ==
    unit.op # "" =>
        /\ unit.out.v.Modulus = unit.out.m.Modulus
        /\ VectorInRange(unit.out.v)
        /\ MatrixInRange(unit.out.m)
        /\ unit.out.scalar \in 0..(unit.out.v.Modulus - 1)
        /\ unit.op = "Vector.UnmarshalBinary"
           /\ Len(unit.in) = 4 + VecLength(unit.out.v) * ElementSize(unit.out.v.Modulus)
           /\ Uint32(SubSeq(unit.in, 1, 4)) = VecLength(unit.out.v)
           => \A i \in 1..VecLength(unit.out.v) :
                  unit.out.v.Values[i]
                      = SetBytes(SubSeq(unit.in,
                                        5 + (i - 1) * ElementSize(unit.out.v.Modulus),
                                        4 + i * ElementSize(unit.out.v.Modulus)))
                            % unit.out.v.Modulus
        /\ unit.op = "Matrix.UnmarshalBinary"
           /\ Len(unit.in) = 8 + 2 * ElementSize(unit.out.m.Modulus)
           => /\ unit.out.m.Rows = 1 /\ unit.out.m.Cols = 2
              /\ \A j \in 1..2 :
                     unit.out.m.Values[1][j]
                         = SetBytes(SubSeq(unit.in,
                                           9 + (j - 1) * ElementSize(unit.out.m.Modulus),
                                           8 + j * ElementSize(unit.out.m.Modulus)))
                               % unit.out.m.Modulus

\* a vector decoded from raw elements not below the modulus, after two other
\* operations
C23_Witness ==
    /\ unit.op = "Vector.UnmarshalBinary"
    /\ unit.out.ops = 3
    /\ VecLength(unit.out.v) = 2
    /\ Len(unit.in) = 4 + 2 * ElementSize(unit.out.v.Modulus)
    /\ \E i \in 1..2 :
           SetBytes(SubSeq(unit.in, 5 + (i - 1) * ElementSize(unit.out.v.Modulus),
                           4 + i * ElementSize(unit.out.v.Modulus)))
               >= unit.out.v.Modulus
    /\ \E i, j \in 1..2 : unit.out.m.Values[i][j] # 0

\* the least number of bytes that hold bitlen(q) bits
ElSize(q) == CHOOSE k \in 0..8 : 8 * k >= BitLen(q) /\ 8 * (k - 1) < BitLen(q)

\* bytes[from + 1 .. from + size] as a big-endian unsigned integer
BigEndianAt(bytes, from, size) ==
    IF size = 0 THEN 0
    ELSE LET F[k \in 1..size] ==
                 IF k = 1 THEN bytes[from + 1] ELSE 256 * F[k - 1] + bytes[from + k]
         IN  F[size]

\* does a nonnegative element need more than size bytes
NeedsMoreThan(x, size) == x >= Pow2(8 * size)

\* the bytes, the error and the operand of the last MarshalBinary
Marshalled == unit.out.data

\* C24: Vector.MarshalBinary yields a 4-byte big-endian length and the
\* elements in ceil(bitlen(q)/8) bytes each, big-endian and zero-padded on
\* the left; Matrix.MarshalBinary yields rows, cols and the elements row by
\* row; UnmarshalBinary of what MarshalBinary yields for elements in [0, q)
\* gives the operand back; MarshalBinary fails with a Serialization error
\* when an element needs more than elSize bytes.
C24_EncodingRoundTrip ==
    /\ unit.op = "Vector.MarshalBinary" =>
           LET v == Marshalled.of
               size == ElSize(v.Modulus)
           IN  IF \E i \in 1..VecLength(v) : NeedsMoreThan(v.Values[i], size)
               THEN Marshalled.err.kind = "Serialization"
               ELSE /\ Marshalled.err = NoErr
                    /\ Len(Marshalled.bytes) = 4 + VecLength(v) * size
                    /\ BigEndianAt(Marshalled.bytes, 0, 4) = VecLength(v)
                    /\ \A i \in 1..VecLength(v) :
                           BigEndianAt(Marshalled.bytes, 4 + (i - 1) * size, size)
                               = v.Values[i]
    /\ unit.op = "Matrix.MarshalBinary" =>
           LET m == Marshalled.of
               size == ElSize(m.Modulus)
           IN  IF \E i \in 1..m.Rows : \E j \in 1..m.Cols :
                      NeedsMoreThan(m.Values[i][j], size)
               THEN Marshalled.err.kind = "Serialization"
               ELSE /\ Marshalled.err = NoErr
                    /\ Len(Marshalled.bytes) = 8 + m.Rows * m.Cols * size
                    /\ BigEndianAt(Marshalled.bytes, 0, 4) = m.Rows
                    /\ BigEndianAt(Marshalled.bytes, 4, 4) = m.Cols
                    /\ \A i \in 1..m.Rows : \A j \in 1..m.Cols :
                           BigEndianAt(Marshalled.bytes,
                                       8 + ((i - 1) * m.Cols + (j - 1)) * size, size)
                               = m.Values[i][j]
    /\ unit.op = "Vector.UnmarshalBinary" /\ Marshalled.kind = "vector"
       /\ Marshalled.err = NoErr /\ unit.in = Marshalled.bytes
       /\ VectorInRange(Marshalled.of)
       => unit.out.v = Marshalled.of
    /\ unit.op = "Matrix.UnmarshalBinary" /\ Marshalled.kind = "matrix"
       /\ Marshalled.err = NoErr /\ unit.in = Marshalled.bytes
       /\ MatrixInRange(Marshalled.of)
       => unit.out.m = Marshalled.of

\* a vector with an element of two bytes decoded from its own encoding
C24_Witness ==
    /\ unit.op = "Vector.UnmarshalBinary"
    /\ Marshalled.kind = "vector"
    /\ Marshalled.err = NoErr
    /\ unit.in = Marshalled.bytes
    /\ VecLength(Marshalled.of) = 2
    /\ \E i \in 1..2 : Marshalled.of.Values[i] > 255
    /\ unit.out.v = Marshalled.of

\* the ciphertext of a successful Encapsulate, parsed again
ParsedAgain == parseCiphertext(enc.ct, params.M, params.Lambda, params.Q)

\* position i of a is position i of b xor position i of c
MaskedBy(a, b, c) ==
    /\ Len(a) = params.Lambda \div 8
    /\ Len(b) = Len(a)
    /\ Len(c) = Len(a)
    /\ \A i \in 1..Len(a) : a[i] = XorByte(b[i], c[i])

\* C25: the bytes a successful Encapsulate returns are c0, c1 and the encodings
\* of x, hatH0 and hatH1 in that order, c0 and c1 are hatK0 and hatK1 xor the
\* seed r over lambda/8 bytes each, and parseCiphertext gives back the same
\* c0, c1, x, hatH0 and hatH1
C25_CiphertextLayout ==
    (enc.done /\ enc.err = NoErr) =>
        /\ MaskedBy(enc.parts.c0, enc.parts.hatK0, enc.r)
        /\ MaskedBy(enc.parts.c1, enc.parts.hatK1, enc.r)
        /\ enc.ct = enc.parts.c0 \o enc.parts.c1
                        \o VecMarshalBinary(enc.parts.x).data
                        \o VecMarshalBinary(enc.parts.hatH0).data
                        \o VecMarshalBinary(enc.parts.hatH1).data
        /\ ParsedAgain.err = NoErr
        /\ ParsedAgain.c0 = enc.parts.c0
        /\ ParsedAgain.c1 = enc.parts.c1
        /\ ParsedAgain.x = enc.parts.x
        /\ ParsedAgain.hatH0 = enc.parts.hatH0
        /\ ParsedAgain.hatH1 = enc.parts.hatH1

\* a successful Encapsulate whose two masked seeds differ and whose x is not zero
C25_Witness ==
    /\ enc.done
    /\ enc.err = NoErr
    /\ enc.parts.c0 # enc.parts.c1
    /\ \E i \in 1..Len(enc.parts.x.Values) : enc.parts.x.Values[i] # 0
    /\ ParsedAgain.x = enc.parts.x

\* a Parameters value C26 speaks of: a non-positive dimension, k other than
\* lambda, or no ring of degree m over q (q absent included)
Rejectable(p) ==
    \/ p.N <= 0
    \/ p.M <= 0
    \/ p.Lambda <= 0
    \/ p.K # p.Lambda
    \/ p.QBig = NilInt
    \/ ~BigRingConstructible(p.M, p.QBig)

\* C26: for every such Parameters value Validate returns an error and does not
\* panic, and GenerateKeyPair returns that error and no keys
C26_InvalidParametersRejected ==
    (unit.op = "Validate" /\ Rejectable(unit.in)) =>
        /\ unit.out.err # NoErr
        /\ unit.out.err.kind # "panic"
        /\ unit.out.gen.err = unit.out.err
        /\ unit.out.gen.pk = NilPK
        /\ unit.out.gen.sk = NilSK

\* C27: after func init() and after any calls of RegisterParameterSet,
\* SetDefaultParameterSet and DefaultParameters the default name is a key of
\* the map and GetDefaultParameterSet does not return Parameters{}; a
\* SetDefaultParameterSet naming a set that is not registered returns an
\* error and leaves the default name and the map as they were
C27_DefaultAlwaysRegistered ==
    (phase # "load") =>
        /\ registry.defaultSet \in DOMAIN registry.paramSets
        /\ GetDefaultParameterSet(registry) # EmptyParameters
        /\ (unit.op = "GetDefault" => unit.out.val # EmptyParameters)
        /\ (unit.op = "SetDefault" /\ unit.in \notin DOMAIN unit.out.before.paramSets)
               => (unit.out.err # NoErr /\ registry = unit.out.before)

\* the least and the greatest element of a non-empty set of integers
Least(S) == CHOOSE x \in S : \A y \in S : x <= y

Greatest(S) == CHOOSE x \in S : \A y \in S : x >= y

\* the calls of one direction return the primes in order, none skipped and
\* none twice, and fail from the first failure on
InOrder(results, left(_), pick(_)) ==
    /\ \A i \in 1..Len(results) :
           /\ Succeeded(results, i) <=> left(i) # {}
           /\ Succeeded(results, i) => ValueOf(results, i) = pick(left(i))
    /\ \A i \in 1..Len(results) : \A j \in i..Len(results) :
           ~Succeeded(results, i) => ~Succeeded(results, j)

C28_Sequence ==
    unit.op = "generator" =>
        /\ InOrder(UpResults, UpPrimesLeft, Least)
        /\ InOrder(DownResults, DownPrimesLeft, Greatest)

\* a call in one direction leaves the candidate, the flag and the results of
\* the other direction as they were
C28_Independent ==
    (unit.op = "generator" /\ unit'.op = "generator") =>
        /\ Len(unit'.out.up) > Len(unit.out.up) =>
               /\ unit'.out.down = unit.out.down
               /\ unit'.out.g.PrevPrime = unit.out.g.PrevPrime
               /\ unit'.out.g.CheckPrevPrime = unit.out.g.CheckPrevPrime
        /\ Len(unit'.out.down) > Len(unit.out.down) =>
               /\ unit'.out.up = unit.out.up
               /\ unit'.out.g.NextPrime = unit.out.g.NextPrime
               /\ unit'.out.g.CheckNextPrime = unit.out.g.CheckNextPrime

C29_RoundingRecoversBit ==
    unit.op = "computeHatH" =>
        /\ unit.out.err = NoErr
        /\ unit.out.hatH.Values[1]
               = (unit.in.h * (unit.in.q \div 2) + unit.in.e) % unit.in.q
        /\ unit.out.hPrime.Values[1] = unit.in.h

\* a matrix of r rows and c columns
HasShape(m, r, c) ==
    /\ m.Rows = r
    /\ m.Cols = c
    /\ Len(m.Values) = r
    /\ \A i \in 1..r : Len(m.Values[i]) = c

\* C30: a public key ParsePublicKey returns has A of n rows and m columns and
\* U0, U1 of n rows and lambda columns, a private key ParsePrivateKey returns
\* has Zb of m rows and lambda columns; bytes that carry other row or column
\* counts are rejected
C30_ParsedKeysHaveShape ==
    /\ (unit.op = "ParsePublicKey" /\ unit.out.err = NoErr) =>
           /\ HasShape(unit.out.key.a, unit.in.p.N, unit.in.p.M)
           /\ HasShape(unit.out.key.u0, unit.in.p.N, unit.in.p.Lambda)
           /\ HasShape(unit.out.key.u1, unit.in.p.N, unit.in.p.Lambda)
    /\ (unit.op = "ParsePrivateKey" /\ unit.out.err = NoErr) =>
           HasShape(unit.out.key.zb, unit.in.p.M, unit.in.p.Lambda)

=========================================================================
